---- MODULE Spec2Model ----
(***************************************************************************)
(* Store Locator Service: the CSV bulk-import pipeline (csv_import.py),    *)
(* the admin store operations and the store search (main.py), the          *)
(* bounding box and distance (distance_calculator.py) and the geocoding    *)
(* cache (geocoding_service.py), modelled as a state machine over the      *)
(* relational storage, the SQLAlchemy session and the Redis cache.         *)
(*                                                                         *)
(* Python values: str is a TLA+ string, None is the sentinel None, a float *)
(* is a record [k, v] (k = "num" with an integer v, k = "nan", or          *)
(* k = "none" for a missing value).                                        *)
(***************************************************************************)
EXTENDS Integers, Sequences, FiniteSets, TLC

\* ---------------------------------------------------------------- bounds
\* Rows processed plus admin requests in one behaviour.
MaxSteps == 2
\* Rows without services in the middle of an uploaded file
MaxPlain == 47
\* Search requests in one behaviour.
MaxSearches == 2
\* Store mutations (admin requests and imported rows) among the searches.
MaxMutations == 1

\* ------------------------------------------------------- Python strings
None == "<None>"

\* Python truthiness of an Optional[str].
Truthy(v) == v # None /\ v # ""

Char(s, i) == SubSeq(s, i, i)

\* str.lower() and str.upper() on one ASCII letter.
ToLower ==
    ("A" :> "a") @@ ("B" :> "b") @@ ("C" :> "c") @@ ("D" :> "d") @@ ("E" :> "e") @@ ("F" :> "f") @@
    ("G" :> "g") @@ ("H" :> "h") @@ ("I" :> "i") @@ ("J" :> "j") @@ ("K" :> "k") @@ ("L" :> "l") @@
    ("M" :> "m") @@ ("N" :> "n") @@ ("O" :> "o") @@ ("P" :> "p") @@ ("Q" :> "q") @@ ("R" :> "r") @@
    ("S" :> "s") @@ ("T" :> "t") @@ ("U" :> "u") @@ ("V" :> "v") @@ ("W" :> "w") @@ ("X" :> "x") @@
    ("Y" :> "y") @@ ("Z" :> "z")
ToUpper ==
    ("a" :> "A") @@ ("b" :> "B") @@ ("c" :> "C") @@ ("d" :> "D") @@ ("e" :> "E") @@ ("f" :> "F") @@
    ("g" :> "G") @@ ("h" :> "H") @@ ("i" :> "I") @@ ("j" :> "J") @@ ("k" :> "K") @@ ("l" :> "L") @@
    ("m" :> "M") @@ ("n" :> "N") @@ ("o" :> "O") @@ ("p" :> "P") @@ ("q" :> "Q") @@ ("r" :> "R") @@
    ("s" :> "S") @@ ("t" :> "T") @@ ("u" :> "U") @@ ("v" :> "V") @@ ("w" :> "W") @@ ("x" :> "X") @@
    ("y" :> "Y") @@ ("z" :> "Z")
DigitValue ==
    ("0" :> 0) @@ ("1" :> 1) @@ ("2" :> 2) @@ ("3" :> 3) @@ ("4" :> 4) @@
    ("5" :> 5) @@ ("6" :> 6) @@ ("7" :> 7) @@ ("8" :> 8) @@ ("9" :> 9)

\* str.find for a single character: 1-based position, 0 when absent.
RECURSIVE FindFrom(_, _, _)
FindFrom(c, s, i) ==
    IF i > Len(s) THEN 0 ELSE IF Char(s, i) = c THEN i ELSE FindFrom(c, s, i + 1)

IndexIn(c, s) == FindFrom(c, s, 1)

RECURSIVE MapChars(_, _)
MapChars(s, table) ==
    IF s = "" THEN ""
    ELSE LET c == Char(s, 1)
         IN (IF c \in DOMAIN table THEN table[c] ELSE c) \o MapChars(Tail(s), table)

\* str.lower() and str.upper() (ASCII letters).
Lower(s) == MapChars(s, ToLower)
Upper(s) == MapChars(s, ToUpper)

IsSpace(c) == c = " "

RECURSIVE LStrip(_)
LStrip(s) == IF s # "" /\ IsSpace(Char(s, 1)) THEN LStrip(Tail(s)) ELSE s

RECURSIVE RStrip(_)
RStrip(s) ==
    IF s # "" /\ IsSpace(Char(s, Len(s))) THEN RStrip(SubSeq(s, 1, Len(s) - 1)) ELSE s

\* str.strip()
Strip(s) == RStrip(LStrip(s))

\* str.split(sep) for a one-character separator: always at least one part.
RECURSIVE Split(_, _)
Split(s, sep) ==
    LET i == IndexIn(sep, s)
    IN IF i = 0 THEN <<s>>
       ELSE <<SubSeq(s, 1, i - 1)>> \o Split(SubSeq(s, i + 1, Len(s)), sep)

\* ", ".join(parts)
RECURSIVE Join(_)
Join(parts) ==
    IF parts = <<>> THEN ""
    ELSE IF Len(parts) = 1 THEN parts[1]
    ELSE parts[1] \o ", " \o Join(Tail(parts))

\* [x for x in seq if keep(x)]
RECURSIVE FilterTruthy(_)
FilterTruthy(seq) ==
    IF seq = <<>> THEN <<>>
    ELSE (IF Truthy(seq[1]) THEN <<seq[1]>> ELSE <<>>) \o FilterTruthy(Tail(seq))

SeqToSet(seq) == {seq[i] : i \in 1..Len(seq)}

\* ---------------------------------------------------------------- floats
Num(n) == [k |-> "num", v |-> n]
NaN == [k |-> "nan", v |-> 0]
Inf == [k |-> "inf", v |-> 0]
NoneF == [k |-> "none", v |-> 0]
\* float(s) raising ValueError
FloatError == [k |-> "error", v |-> 0]

IsDigitStr(s) == s # "" /\ \A i \in 1..Len(s) : Char(s, i) \in DOMAIN DigitValue

RECURSIVE NatOf(_)
NatOf(s) ==
    IF s = "" THEN 0 ELSE NatOf(SubSeq(s, 1, Len(s) - 1)) * 10 + DigitValue[Char(s, Len(s))]

\* float(val) for the literals the model feeds it: surrounding blanks are
\* ignored, an optional sign and decimal digits give a number, "nan" and
\* "inf"/"infinity" (any case) give the IEEE specials, the rest raises.
PyFloat(val) ==
    LET s == Lower(Strip(val))
        signed == s # "" /\ Char(s, 1) \in {"-", "+"}
        body == IF signed THEN Tail(s) ELSE s
        neg == signed /\ Char(s, 1) = "-"
    IN IF body = "nan" THEN NaN
       ELSE IF body \in {"inf", "infinity"} THEN [k |-> "inf", v |-> IF neg THEN 0 - 1 ELSE 1]
       ELSE IF IsDigitStr(body) THEN Num(IF neg THEN 0 - NatOf(body) ELSE NatOf(body))
       ELSE FloatError

\* f < bound and f > bound on floats: every comparison with NaN is false.
FloatLess(f, bound) ==
    \/ f.k = "num" /\ f.v < bound
    \/ f.k = "inf" /\ f.v < 0
FloatGreater(f, bound) ==
    \/ f.k = "num" /\ f.v > bound
    \/ f.k = "inf" /\ f.v > 0

\* int(s) for the hour and minute fields: digits with optional blanks around.
IntError == 0 - 1
PyInt(s) == IF IsDigitStr(Strip(s)) THEN NatOf(Strip(s)) ELSE IntError

\* ------------------------------------------------------------ models.py
StoreType == {"flagship", "regular", "outlet", "express"}
StoreStatus == {"active", "inactive", "temporarily_closed"}

Days == <<"mon", "tue", "wed", "thu", "fri", "sat", "sun">>
DaySet == SeqToSet(Days)
HoursField(day) == "hours_" \o day

\* ------------------------------------------------------- csv_import.py
validate_time(t) ==
    IF IndexIn(":", t) = 0 THEN FALSE
    ELSE LET hm == Split(t, ":")
         IN IF Len(hm) # 2 THEN FALSE
            ELSE LET h == PyInt(hm[1])
                     m == PyInt(hm[2])
                 IN IF h = IntError \/ m = IntError THEN FALSE
                    ELSE IF ~(0 <= h /\ h <= 24 /\ 0 <= m /\ m <= 59) THEN FALSE
                    ELSE ~(h = 24 /\ m > 0)

validate_hours(hours_str) ==
    IF ~Truthy(hours_str) \/ Lower(hours_str) = "closed" THEN TRUE
    ELSE LET parts == Split(hours_str, "-")
         IN IF Len(parts) # 2 THEN FALSE
            ELSE validate_time(Strip(parts[1])) /\ validate_time(Strip(parts[2]))

RECURSIVE StripNonEmpty(_)
StripNonEmpty(segs) ==
    IF segs = <<>> THEN <<>>
    ELSE (IF Strip(segs[1]) # "" THEN <<Strip(segs[1])>> ELSE <<>>) \o StripNonEmpty(Tail(segs))

\* parse_services without the strip and without the filter.
parse_services_unfiltered(services_str) ==
    IF ~Truthy(services_str) THEN <<>>
    ELSE Split(services_str, "|")

parse_services(services_str) ==
    IF ~Truthy(services_str) THEN <<>>
    ELSE StripNonEmpty(Split(services_str, "|"))

\* dict.get(key) and dict.get(key, default)
Get(row, key) == IF key \in DOMAIN row THEN row[key] ELSE None
GetD(row, key, default) == IF key \in DOMAIN row THEN row[key] ELSE default

Valid == [ok |-> TRUE, error |-> None]
Invalid(msg) == [ok |-> FALSE, error |-> msg]

validate_coord(row, coord_field) ==
    LET val == Get(row, coord_field)
    IN IF Truthy(val) /\ Strip(val) # ""
       THEN LET f_val == PyFloat(val)
            IN IF f_val = FloatError THEN Invalid("Invalid " \o coord_field \o ": " \o val)
               ELSE IF coord_field = "latitude" /\ (FloatLess(f_val, 0 - 90) \/ FloatGreater(f_val, 90))
                    THEN Invalid("Latitude out of range: " \o val)
               ELSE IF coord_field = "longitude" /\ (FloatLess(f_val, 0 - 180) \/ FloatGreater(f_val, 180))
                    THEN Invalid("Longitude out of range: " \o val)
               ELSE Valid
       ELSE Valid

RECURSIVE validate_days(_, _)
validate_days(row, days) ==
    IF days = <<>> THEN Valid
    ELSE LET hours_field == HoursField(days[1])
         IN IF Truthy(Get(row, hours_field)) /\ ~validate_hours(row[hours_field])
            THEN Invalid("Invalid hours format for " \o days[1] \o ": " \o row[hours_field])
            ELSE validate_days(row, Tail(days))

validate_store_row(row) ==
    IF ~Truthy(Get(row, "store_id")) THEN Invalid("Missing required field: store_id")
    ELSE IF ~Truthy(Get(row, "name")) THEN Invalid("Missing required field: name")
    ELSE IF Truthy(Get(row, "store_type")) /\ Lower(row["store_type"]) \notin StoreType
         THEN Invalid("Invalid store_type: " \o row["store_type"])
    ELSE IF Truthy(Get(row, "status")) /\ Lower(row["status"]) \notin StoreStatus
         THEN Invalid("Invalid status: " \o row["status"])
    ELSE IF ~validate_coord(row, "latitude").ok THEN validate_coord(row, "latitude")
    ELSE IF ~validate_coord(row, "longitude").ok THEN validate_coord(row, "longitude")
    ELSE validate_days(row, Days)

\* ------------------------------------------------- geocoding_service.py
NoCoords == [found |-> FALSE, latitude |-> NoneF, longitude |-> NoneF]
Coords(lat, lon) == [found |-> TRUE, latitude |-> lat, longitude |-> lon]

\* geolocator.geocode raising an exception of geopy.exc.
GeocoderRaises(exception) ==
    [found |-> FALSE, latitude |-> NoneF, longitude |-> NoneF, raised |-> exception]

\* The exception a provider call raised, None when it returned.
Raised(provider) == IF "raised" \in DOMAIN provider THEN provider.raised ELSE None

\* What geolocator.geocode can do on one call: return a location, return
\* no match, time out or fail with a service error.
ProviderOutcomes ==
    {NoCoords, Coords(Num(42), Num(0 - 71)),
     GeocoderRaises("GeocoderTimedOut"), GeocoderRaises("GeocoderServiceError")}

\* A lookup without the except clause.
GeocoderCaughtNothing == {}

\* except (GeocoderTimedOut, GeocoderServiceError) (lines 34 and 60).
GeocoderCaught == {"GeocoderTimedOut", "GeocoderServiceError"}

\* A lookup that asks the provider without reading the cache.
get_coordinates_uncached(address, cache, provider) ==
    IF Raised(provider) # None
    THEN [coords |-> NoCoords, cache |-> cache, log |-> <<"provider", Raised(provider)>>,
          raised |-> None]
    ELSE IF provider.found
         THEN [coords |-> provider,
               cache |-> [a \in DOMAIN cache \cup {address} |->
                             IF a = address THEN provider ELSE cache[a]],
               log |-> <<"provider">>, raised |-> None]
         ELSE [coords |-> NoCoords, cache |-> cache, log |-> <<"provider">>, raised |-> None]

\* A lookup that also caches the answer "no match".
get_coordinates_caching_misses(address, cache, provider) ==
    IF address \in DOMAIN cache
    THEN [coords |-> cache[address], cache |-> cache, log |-> <<>>, raised |-> None]
    ELSE LET answer == IF Raised(provider) = None /\ provider.found THEN provider ELSE NoCoords
         IN [coords |-> answer,
             cache |-> [a \in DOMAIN cache \cup {address} |->
                           IF a = address THEN answer ELSE cache[a]],
             log |-> IF Raised(provider) = None THEN <<"provider">>
                     ELSE <<"provider", Raised(provider)>>,
             raised |-> None]

\* get_coordinates_from_address(address, redis_client) with the provider's
\* answer for this call: the coordinates returned, the cache afterwards,
\* the provider calls made, each followed by the exception it raised if
\* any, and the exception that leaves the function.
get_coordinates_from_address(address, cache, provider) ==
    IF address \in DOMAIN cache
    THEN [coords |-> cache[address], cache |-> cache, log |-> <<>>, raised |-> None]
    ELSE IF Raised(provider) # None
         THEN [coords |-> NoCoords, cache |-> cache, log |-> <<"provider", Raised(provider)>>,
               raised |-> IF Raised(provider) \in GeocoderCaught THEN None
                          ELSE Raised(provider)]
    ELSE IF provider.found
         THEN [coords |-> provider,
               cache |-> [a \in DOMAIN cache \cup {address} |->
                             IF a = address THEN provider ELSE cache[a]],
               log |-> <<"provider">>, raised |-> None]
         ELSE [coords |-> NoCoords, cache |-> cache, log |-> <<"provider">>, raised |-> None]

NoRow == [c \in {} |-> ""]
NoCache == [c \in {} |-> 0]
NoResponse == [op |-> "none", code |-> 0]

\* ------------------------------------------------- storage (SQLAlchemy)
\* A database state: the stores table (with each store's service
\* associations) and the services table.
NoStores == [i \in {} |-> 0]
EmptyDB == [stores |-> NoStores, services |-> {}]

ServiceIds(services) == {svc.service_id : svc \in services}
ServiceNames(services) == {svc.name : svc \in services}

\* INSERT of new service rows: service_id is the primary key and name is
\* unique (models.py), so the statement fails on any duplicate.
InsertServicesOk(services, new) ==
    /\ \A n \in new : n.service_id \notin ServiceIds(services) /\ n.name \notin ServiceNames(services)
    /\ \A n1, n2 \in new : (n1.service_id = n2.service_id \/ n1.name = n2.name) => n1 = n2

PutStore(dbv, store_id, store) ==
    [dbv EXCEPT !.stores = [i \in DOMAIN dbv.stores \cup {store_id} |->
                               IF i = store_id THEN store ELSE dbv.stores[i]]]

\* ------------------------------------------- csv_import.py: one data row
ImportResult(row_number, store_id, status, error) ==
    [row_number |-> row_number, store_id |-> store_id, status |-> status, error |-> error]

CoordError == "Could not determine coordinates from CSV or geocoding"
UnexpectedError(msg) == "Unexpected error: " \o msg

\* csv.DictReader(f, fieldnames=headers) on one record: missing trailing
\* fields become None, surplus fields go to a list under the key None.
RestList == "<list>"

DictReader(headers, cells) ==
    [c \in SeqToSet(headers) \cup (IF Len(cells) > Len(headers) THEN {None} ELSE {}) |->
        IF c = None THEN RestList
        ELSE LET i == CHOOSE j \in 1..Len(headers) :
                         headers[j] = c /\ \A m \in (j + 1)..Len(headers) : headers[m] # c
             IN IF i <= Len(cells) THEN cells[i] ELSE None]

\* row = {k: (v.strip() if v else v) for k, v in raw_row.items()} (line 127);
\* a list has no strip().
StripFails(raw_row) == \E k \in DOMAIN raw_row : raw_row[k] = RestList

StripRow(raw_row) ==
    [c \in DOMAIN raw_row |-> IF Truthy(raw_row[c]) THEN Strip(raw_row[c]) ELSE raw_row[c]]

\* Lines 151-185: the coordinates of the row, literal or geocoded.
AddressParts(row) ==
    FilterTruthy(<<Get(row, "address_street"), Get(row, "address_city"),
                   Get(row, "address_state"), Get(row, "address_postal_code")>>)

\* ResolveCoordinates without the sleep of line 180.
ResolveCoordinatesUnthrottled(row, cache, provider) ==
    LET lat_val == Get(row, "latitude")
        lon_val == Get(row, "longitude")
        flat == IF Truthy(lat_val) /\ Truthy(lon_val) THEN PyFloat(lat_val) ELSE FloatError
        flon == IF flat # FloatError THEN PyFloat(lon_val) ELSE FloatError
        latitude == IF flat # FloatError THEN flat ELSE NoneF
        longitude == IF flon # FloatError THEN flon ELSE NoneF
        address_parts == AddressParts(row)
        address == Join(address_parts)
        geo == get_coordinates_from_address(address, cache, provider)
    IN IF latitude # NoneF /\ longitude # NoneF
       THEN [latitude |-> latitude, longitude |-> longitude, cache |-> cache, log |-> <<>>,
             raised |-> None]
       ELSE IF address_parts # <<>>
            THEN [latitude |-> IF geo.coords.found THEN geo.coords.latitude ELSE latitude,
                  longitude |-> IF geo.coords.found THEN geo.coords.longitude ELSE longitude,
                  cache |-> geo.cache,
                  log |-> geo.log,
                  raised |-> geo.raised]
            ELSE [latitude |-> latitude, longitude |-> longitude, cache |-> cache, log |-> <<>>,
                  raised |-> None]

ResolveCoordinates(row, cache, provider) ==
    LET lat_val == Get(row, "latitude")
        lon_val == Get(row, "longitude")
        flat == IF Truthy(lat_val) /\ Truthy(lon_val) THEN PyFloat(lat_val) ELSE FloatError
        flon == IF flat # FloatError THEN PyFloat(lon_val) ELSE FloatError
        latitude == IF flat # FloatError THEN flat ELSE NoneF
        longitude == IF flon # FloatError THEN flon ELSE NoneF
        address_parts == AddressParts(row)
        address == Join(address_parts)
        geo == get_coordinates_from_address(address, cache, provider)
    IN IF latitude # NoneF /\ longitude # NoneF
       THEN [latitude |-> latitude, longitude |-> longitude, cache |-> cache, log |-> <<>>,
             raised |-> None]
       ELSE IF address_parts # <<>>
            THEN [latitude |-> IF geo.coords.found THEN geo.coords.latitude ELSE latitude,
                  longitude |-> IF geo.coords.found THEN geo.coords.longitude ELSE longitude,
                  cache |-> geo.cache,
                  log |-> (IF address \in DOMAIN cache THEN <<>> ELSE <<"sleep">>) \o geo.log,
                  raised |-> geo.raised]
            ELSE [latitude |-> latitude, longitude |-> longitude, cache |-> cache, log |-> <<>>,
                  raised |-> None]

\* service_id of a tag created by the import (line 208).
ImportServiceId(name) == "SVC_" \o Upper(name)

IntegrityError == "IntegrityError: duplicate key value violates unique constraint"

\* get_service for each name of services_list, in order (lines 203-212, 243-244,
\* 277-278). st = [ok, services, cache, pending]: the services table, the
\* name -> Service dict service_cache and the Service objects of the dict
\* that are not in the table (their INSERT was rolled back with an earlier
\* row) but are referenced again.  attached: the store is already in the
\* session (update path), so db.flush() in get_service also inserts them.
RECURSIVE ResolveServices(_, _, _)
ResolveServices(names, st, attached) ==
    IF names = <<>> \/ ~st.ok THEN st
    ELSE LET name == names[1]
             byName == {svc \in st.services : svc.name = name}
             svc == [service_id |-> ImportServiceId(name), name |-> name]
             toInsert == {svc} \cup (IF attached THEN st.pending ELSE {})
             cached(obj) == [c \in DOMAIN st.cache \cup {name} |->
                                IF c = name THEN obj ELSE st.cache[c]]
             next ==
                 IF name \in DOMAIN st.cache
                 THEN [st EXCEPT !.pending =
                          IF st.cache[name] \in st.services THEN @ ELSE @ \cup {st.cache[name]}]
                 ELSE IF byName # {}
                      THEN [st EXCEPT !.cache = cached(CHOOSE o \in byName : TRUE)]
                 ELSE IF InsertServicesOk(st.services, toInsert)
                      THEN [st EXCEPT !.services = @ \cup toInsert,
                                      !.pending = @ \ toInsert,
                                      !.cache = cached(svc)]
                 ELSE [st EXCEPT !.ok = FALSE]
         IN ResolveServices(Tail(names), next, attached)

\* Mutation of UpdateFields: a column of the header overwrites the stored
\* value even when the row's cell is empty.
UpdateFieldsOverwrites(store, row, latitude, longitude) ==
    LET put(field, old) == IF field \in DOMAIN row THEN row[field] ELSE old
    IN [store EXCEPT
          !.name = row["name"],
          !.store_type = IF Truthy(Get(row, "store_type")) THEN Lower(row["store_type"]) ELSE @,
          !.status = IF Truthy(Get(row, "status")) THEN Lower(row["status"]) ELSE @,
          !.latitude = IF latitude # NoneF THEN latitude ELSE @,
          !.longitude = IF longitude # NoneF THEN longitude ELSE @,
          !.address_street = put("address_street", @),
          !.address_city = put("address_city", @),
          !.address_state = put("address_state", @),
          !.address_postal_code = put("address_postal_code", @),
          !.address_country = put("address_country", @),
          !.phone = put("phone", @),
          !.hours = [day \in DaySet |-> put(HoursField(day), store.hours[day])]]

\* Lines 214-245: the partial update of an existing store, before its
\* services are touched.
UpdateFields(store, row, latitude, longitude) ==
    LET put(field, old) == IF Truthy(Get(row, field)) THEN row[field] ELSE old
    IN [store EXCEPT
          !.name = row["name"],
          !.store_type = IF Truthy(Get(row, "store_type")) THEN Lower(row["store_type"]) ELSE @,
          !.status = IF Truthy(Get(row, "status")) THEN Lower(row["status"]) ELSE @,
          !.latitude = IF latitude # NoneF THEN latitude ELSE @,
          !.longitude = IF longitude # NoneF THEN longitude ELSE @,
          !.address_street = put("address_street", @),
          !.address_city = put("address_city", @),
          !.address_state = put("address_state", @),
          !.address_postal_code = put("address_postal_code", @),
          !.address_country = put("address_country", @),
          !.phone = put("phone", @),
          !.hours = [day \in DaySet |-> put(HoursField(day), store.hours[day])]]

\* Lines 254-274: Store(...) of the create path; the enum constructors raise
\* on a value that is no member, and None has no lower().
NewStoreError(row) ==
    LET st == GetD(row, "store_type", "regular")
        ss == GetD(row, "status", "active")
    IN IF st = None THEN "'NoneType' object has no attribute 'lower'"
       ELSE IF Lower(st) \notin StoreType THEN "'" \o Lower(st) \o "' is not a valid StoreType"
       ELSE IF ss = None THEN "'NoneType' object has no attribute 'lower'"
       ELSE IF Lower(ss) \notin StoreStatus THEN "'" \o Lower(ss) \o "' is not a valid StoreStatus"
       ELSE None

NewStore(row, latitude, longitude) ==
    [name |-> row["name"],
     store_type |-> Lower(GetD(row, "store_type", "regular")),
     status |-> Lower(GetD(row, "status", "active")),
     latitude |-> latitude,
     longitude |-> longitude,
     address_street |-> Get(row, "address_street"),
     address_city |-> Get(row, "address_city"),
     address_state |-> Get(row, "address_state"),
     address_postal_code |-> Get(row, "address_postal_code"),
     address_country |-> GetD(row, "address_country", "USA"),
     phone |-> Get(row, "phone"),
     hours |-> [day \in DaySet |-> GetD(row, HoursField(day), "closed")],
     services |-> {}]

\* Line 289: the periodic flush.
FlushEvery == 50

\* The body of the try block (lines 147-290) for a validated row.  dbv is
\* the session's view of the database when the row starts, successes is
\* created_count + updated_count.  The result carries the entries appended
\* to results, the counter increments, the database as the row's writes
\* left it (db), whether the exception came out of a failed db.flush()
\* (the session has then rolled the savepoint back) and the Service objects
\* still waiting for their INSERT.
TryRow(dbv, cache, row, row_number, latitude, longitude, successes) ==
    LET store_id == row["store_id"]
        existing == store_id \in DOMAIN dbv.stores
        services_list == parse_services(GetD(row, "services", ""))
        entry(status, error) == ImportResult(row_number, store_id, status, error)
        failed(error, dbw, c, flush) ==
            [entries |-> <<entry("failed", error)>>, created |-> 0, updated |-> 0, failed |-> 1,
             db |-> dbw, cache |-> c, flush_failed |-> flush, pending |-> {}]
        \* lines 246-251 / 281-290: count, report, flush every FlushEvery rows
        done(status, dbw, c, pending) ==
            IF (successes + 1) % FlushEvery = 0 /\ ~InsertServicesOk(dbw.services, pending)
            THEN [entries |-> <<entry(status, None), entry("failed", UnexpectedError(IntegrityError))>>,
                  created |-> IF status = "created" THEN 1 ELSE 0,
                  updated |-> IF status = "updated" THEN 1 ELSE 0,
                  failed |-> 1, db |-> dbw, cache |-> c, flush_failed |-> TRUE, pending |-> {}]
            ELSE [entries |-> <<entry(status, None)>>,
                  created |-> IF status = "created" THEN 1 ELSE 0,
                  updated |-> IF status = "updated" THEN 1 ELSE 0,
                  failed |-> 0, db |-> dbw, cache |-> c, flush_failed |-> FALSE, pending |-> pending]
        start == [ok |-> TRUE, services |-> dbv.services, cache |-> cache, pending |-> {}]
        \* update path
        updated == UpdateFields(dbv.stores[store_id], row, latitude, longitude)
        ust == ResolveServices(services_list, start, TRUE)
        uservices == IF "services" \in DOMAIN row THEN ust ELSE start
        ustore == IF "services" \in DOMAIN row
                  THEN [updated EXCEPT !.services = IF ust.ok THEN SeqToSet(services_list) ELSE {}]
                  ELSE updated
        udb == [PutStore(dbv, store_id, ustore) EXCEPT !.services = uservices.services]
        \* create path
        cst == ResolveServices(services_list, start, FALSE)
        cstore == [NewStore(row, latitude, longitude) EXCEPT !.services = SeqToSet(services_list)]
        cdb == [PutStore(dbv, store_id, cstore) EXCEPT !.services = cst.services]
    IN IF latitude = NoneF /\ ~existing
       THEN failed(CoordError, dbv, cache, FALSE)
       ELSE IF existing
            THEN IF ~uservices.ok
                 THEN failed(UnexpectedError(IntegrityError), udb, uservices.cache, TRUE)
                 ELSE done("updated", udb, uservices.cache, uservices.pending)
       ELSE IF NewStoreError(row) # None
            THEN failed(UnexpectedError(NewStoreError(row)), dbv, cache, FALSE)
       ELSE IF ~cst.ok
            THEN failed(UnexpectedError(IntegrityError), [dbv EXCEPT !.services = cst.services],
                        cst.cache, TRUE)
       ELSE done("created", cdb, cst.cache, cst.pending)

\* with db.begin_nested() (lines 143-145): the savepoint of one row.  A
\* failed flush has rolled the session back to the savepoint; any other way
\* out of the try block leaves the block normally and releases the savepoint
\* with the writes made so far.
RowScope(before, attempt) ==
    IF attempt.flush_failed THEN before ELSE attempt.db

\* A row that did not reach the try block.
NoAttempt ==
    [entries |-> <<>>, created |-> 0, updated |-> 0, failed |-> 0, db |-> EmptyDB,
     cache |-> NoCache, flush_failed |-> FALSE, pending |-> {}]

NoLookup(gcache) ==
    [latitude |-> NoneF, longitude |-> NoneF, cache |-> gcache, log |-> <<>>, raised |-> None]

\* The try block left by an exception of the geocoding call (line 182): the
\* except block at lines 292-302 reports the row.
RaisedInRow(dbv, cache, row, row_number, exception) ==
    [entries |-> <<ImportResult(row_number, row["store_id"], "failed",
                                UnexpectedError(exception))>>,
     created |-> 0, updated |-> 0, failed |-> 1, db |-> dbv, cache |-> cache,
     flush_failed |-> FALSE, pending |-> {}]

\* How one iteration of the loop of process_csv_import (lines 125-302)
\* ends, given the row as stripped, the verdict of validate_store_row, the
\* coordinates resolved and what the try block did.
\* abort = 0: the loop goes on; otherwise the exception left
\* process_csv_import and import_stores_csv answered with that status code.
RowOutcome(dbv, cache, gcache, raw_row, row, valid, geo, attempt, row_number) ==
    LET scoped == RowScope(dbv, attempt)
        same == [abort |-> 0, entries |-> <<>>, created |-> 0, updated |-> 0,
                 failed |-> 0, db |-> dbv, cache |-> cache, gcache |-> gcache, log |-> <<>>]
    IN IF StripFails(raw_row)
       THEN [same EXCEPT !.abort = 500]
       ELSE IF ~valid.ok
            THEN IF Get(row, "store_id") = None
                 THEN [same EXCEPT !.abort = 400]
                 ELSE [same EXCEPT !.entries = <<ImportResult(row_number, row["store_id"],
                                                              "failed", valid.error)>>,
                                   !.failed = 1]
       ELSE IF ~attempt.flush_failed /\ ~InsertServicesOk(scoped.services, attempt.pending)
            THEN [same EXCEPT !.abort = 500, !.gcache = geo.cache, !.log = geo.log]
       ELSE [abort |-> 0, entries |-> attempt.entries,
             created |-> attempt.created, updated |-> attempt.updated, failed |-> attempt.failed,
             db |-> [scoped EXCEPT !.services = @ \cup attempt.pending],
             cache |-> attempt.cache, gcache |-> geo.cache, log |-> geo.log]

\* ------------------------------------------------ main.py: admin requests
AdminServiceId(name) == "SVC_" \o name

\* The "for service_name in ..." loops of create_store and update_store
\* (main.py 394-399, 485-492): a Service is added for every name the query
\* does not find; the session does not autoflush, so a name listed twice is
\* added twice.  ok: the INSERTs of db.commit() succeed.
AdminServices(names, services) ==
    LET fresh == {i \in 1..Len(names) : names[i] \notin ServiceNames(services)}
        new == {[service_id |-> AdminServiceId(names[i]), name |-> names[i]] : i \in fresh}
    IN [ok |-> /\ InsertServicesOk(services, new)
               /\ \A i, j \in fresh : names[i] = names[j] => i = j,
        services |-> services \cup new]

\* "not latitude": None and 0.0 are both falsy.
Falsy(f) == f = NoneF \/ f = Num(0)

\* create_store (main.py 325-411) with the provider's answer, should it be
\* called: the status code, the database and the geocoding cache afterwards.
create_store(dbv, gcache, store_data, provider) ==
    LET has_coords == store_data.latitude # NoneF /\ store_data.longitude # NoneF
        has_address == /\ Truthy(store_data.address_street)
                       /\ Truthy(store_data.address_city)
                       /\ Truthy(store_data.address_state)
                       /\ Truthy(store_data.address_postal_code)
        address == store_data.address_street \o ", " \o store_data.address_city \o ", "
                   \o store_data.address_state \o " " \o store_data.address_postal_code
        lookup == (Falsy(store_data.latitude) \/ Falsy(store_data.longitude)) /\ has_address
        geo == get_coordinates_from_address(address, gcache, provider)
        svcs == AdminServices(store_data.services, dbv.services)
        new_store ==
            [name |-> store_data.name,
             store_type |-> store_data.store_type,
             status |-> store_data.status,
             latitude |-> IF lookup THEN geo.coords.latitude ELSE store_data.latitude,
             longitude |-> IF lookup THEN geo.coords.longitude ELSE store_data.longitude,
             address_street |-> store_data.address_street,
             address_city |-> store_data.address_city,
             address_state |-> store_data.address_state,
             address_postal_code |-> store_data.address_postal_code,
             address_country |-> store_data.address_country,
             phone |-> store_data.phone,
             hours |-> store_data.hours,
             services |-> SeqToSet(store_data.services)]
        same(code) == [code |-> code, db |-> dbv, gcache |-> gcache, log |-> <<>>]
    IN IF store_data.store_id \in DOMAIN dbv.stores THEN same(400)
       ELSE IF ~has_coords /\ ~has_address THEN same(400)
       ELSE IF lookup /\ geo.raised # None
            THEN [code |-> 500, db |-> dbv, gcache |-> geo.cache, log |-> geo.log]
       ELSE IF lookup /\ ~geo.coords.found
            THEN [code |-> 400, db |-> dbv, gcache |-> geo.cache, log |-> geo.log]
       ELSE [code |-> IF svcs.ok THEN 200 ELSE 500,
             db |-> IF svcs.ok
                    THEN [PutStore(dbv, store_data.store_id, new_store)
                             EXCEPT !.services = svcs.services]
                    ELSE dbv,
             gcache |-> IF lookup THEN geo.cache ELSE gcache,
             log |-> IF lookup THEN geo.log ELSE <<>>]

\* update_store (main.py 463-509); update_data holds the fields the client set.
update_store(dbv, store_id, update_data) ==
    LET store == dbv.stores[store_id]
        set(field, old) == IF field \in DOMAIN update_data THEN update_data[field] ELSE old
        svcs == IF "services" \in DOMAIN update_data
                THEN AdminServices(update_data["services"], dbv.services)
                ELSE [ok |-> TRUE, services |-> dbv.services]
        updated ==
            [store EXCEPT
               !.name = set("name", @),
               !.phone = set("phone", @),
               !.status = set("status", @),
               !.services = IF "services" \in DOMAIN update_data
                            THEN SeqToSet(update_data["services"]) ELSE @,
               !.hours = [day \in DaySet |-> set(HoursField(day), store.hours[day])]]
    IN IF store_id \notin DOMAIN dbv.stores THEN [code |-> 404, db |-> dbv]
       ELSE IF ~svcs.ok THEN [code |-> 500, db |-> dbv]
       ELSE [code |-> 200,
             db |-> [PutStore(dbv, store_id, updated) EXCEPT !.services = svcs.services]]

\* A delete that removes the row of the store.
delete_store_hard(dbv, store_id) ==
    IF store_id \notin DOMAIN dbv.stores THEN [code |-> 404, db |-> dbv]
    ELSE [code |-> 200,
          db |-> [dbv EXCEPT !.stores = [i \in DOMAIN dbv.stores \ {store_id} |-> dbv.stores[i]]]]

\* delete_store (main.py 511-528): the soft delete.
delete_store(dbv, store_id) ==
    IF store_id \notin DOMAIN dbv.stores THEN [code |-> 404, db |-> dbv]
    ELSE [code |-> 200,
          db |-> PutStore(dbv, store_id, [dbv.stores[store_id] EXCEPT !.status = "inactive"])]

\* ------------------------------------------------ distance_calculator.py
\* Distances and radii are in hundredths of a mile, the edges of a bounding
\* box in thousandths of a degree.

\* math.cos(math.radians(latitude)) in ten-thousandths, for the latitudes of
\* the search centres.
\* math.cos(math.radians(latitude)) in ten-thousandths, for the latitudes
\* of the model; the cosine is even, and below 1e-6 only at 90 degrees.
CosLat == (0 :> 10000) @@ (10 :> 9848) @@ (11 :> 9816) @@ (42 :> 7431) @@ (89 :> 175) @@
          (90 :> 0)

Min(a, b) == IF a < b THEN a ELSE b
Max(a, b) == IF a > b THEN a ELSE b

\* The box without the clamp of lines 28-29.
calculate_bounding_box_unclamped(latitude, longitude, radius_miles) ==
    LET lat_delta == (radius_miles * 10) \div 69
        cos_lat == CosLat[IF latitude.v < 0 THEN 0 - latitude.v ELSE latitude.v]
        lon_delta == IF cos_lat = 0 THEN (radius_miles * 14472) \div 100000
                     ELSE (radius_miles * 100000) \div (69 * cos_lat)
    IN [min_lat |-> latitude.v * 1000 - lat_delta,
        max_lat |-> latitude.v * 1000 + lat_delta,
        min_lon |-> longitude.v * 1000 - lon_delta,
        max_lon |-> longitude.v * 1000 + lon_delta]

\* calculate_bounding_box: lat_delta = radius / 69, lon_delta = radius /
\* (69 * cos(latitude)), or radius / 3959 radians in degrees where the
\* cosine is below 1e-6; the latitudes clamped to [-90, 90].
calculate_bounding_box(latitude, longitude, radius_miles) ==
    LET lat_delta == (radius_miles * 10) \div 69
        cos_lat == CosLat[IF latitude.v < 0 THEN 0 - latitude.v ELSE latitude.v]
        lon_delta == IF cos_lat = 0 THEN (radius_miles * 14472) \div 100000
                     ELSE (radius_miles * 100000) \div (69 * cos_lat)
    IN [min_lat |-> Max(0 - 90000, latitude.v * 1000 - lat_delta),
        max_lat |-> Min(90000, latitude.v * 1000 + lat_delta),
        min_lon |-> longitude.v * 1000 - lon_delta,
        max_lon |-> longitude.v * 1000 + lon_delta]

\* geodesic(point1, point2).miles on the WGS-84 ellipsoid, for the points
\* <<latitude, longitude>> that stores and search centres have.
GeodesicMiles ==
    (<<<<10, 20>>, <<11, 20>>>> :> 6873) @@ (<<<<10, 20>>, <<11, 21>>>> :> 9670) @@
    (<<<<10, 20>>, <<10, 21>>>> :> 6813) @@ (<<<<10, 20>>, <<0, 20>>>> :> 68715) @@
    (<<<<10, 20>>, <<42, 0 - 71>>>> :> 581396) @@ (<<<<11, 20>>, <<11, 21>>>> :> 6791) @@
    (<<<<11, 20>>, <<10, 21>>>> :> 9670) @@ (<<<<11, 20>>, <<0, 20>>>> :> 75588) @@
    (<<<<11, 20>>, <<42, 0 - 71>>>> :> 576837) @@ (<<<<11, 21>>, <<10, 21>>>> :> 6873) @@
    (<<<<11, 21>>, <<0, 20>>>> :> 75900) @@ (<<<<11, 21>>, <<42, 0 - 71>>>> :> 581917) @@
    (<<<<10, 21>>, <<0, 20>>>> :> 69058) @@ (<<<<10, 21>>, <<42, 0 - 71>>>> :> 586486) @@
    (<<<<0, 20>>, <<42, 0 - 71>>>> :> 627219)

calculate_distance(lat1, lon1, lat2, lon2) ==
    LET point1 == <<lat1.v, lon1.v>>
        point2 == <<lat2.v, lon2.v>>
    IN IF point1 = point2 THEN 0
       ELSE IF <<point1, point2>> \in DOMAIN GeodesicMiles THEN GeodesicMiles[<<point1, point2>>]
       ELSE GeodesicMiles[<<point2, point1>>]

\* ------------------------------------------------------ main.py: search
\* datetime.strptime(s, '%H:%M') as minutes after midnight: an hour of one
\* or two digits up to 23, ':', a minute of one or two digits up to 59 and
\* nothing else; everything else raises ValueError.
StrptimeError == 0 - 1
strptime(s) ==
    LET colon == IndexIn(":", s)
        h == SubSeq(s, 1, colon - 1)
        m == SubSeq(s, colon + 1, Len(s))
    IN IF colon = 0 THEN StrptimeError
       ELSE IF ~(IsDigitStr(h) /\ Len(h) <= 2 /\ NatOf(h) <= 23) THEN StrptimeError
       ELSE IF ~(IsDigitStr(m) /\ Len(m) <= 2 /\ NatOf(m) <= 59) THEN StrptimeError
       ELSE NatOf(h) * 60 + NatOf(m)

\* The local clock readings of the model: now = [day, minute].
Clock ==
    {[day |-> "mon", minute |-> 180], [day |-> "mon", minute |-> 600],
     [day |-> "mon", minute |-> 1380]}

\* is_store_open (lines 52-80).  hours_str.split('-') on None raises
\* AttributeError, which the function does not catch.
IsStoreOpenRaises(store, now) ==
    store.status = "active" /\ store.hours[now.day] = None

is_store_open(store, now) ==
    LET hours_str == store.hours[now.day]
        parts == Split(hours_str, "-")
        open_time == strptime(parts[1])
        close_time == strptime(parts[2])
    IN IF store.status # "active" THEN FALSE
       ELSE IF hours_str = "closed" THEN FALSE
       ELSE IF Len(parts) # 2 THEN FALSE
       ELSE IF open_time = StrptimeError \/ close_time = StrptimeError THEN FALSE
       ELSE IF open_time <= close_time
            THEN open_time <= now.minute /\ now.minute < close_time
            ELSE now.minute >= open_time \/ now.minute < close_time

\* SearchFilters (schemas.py 57-61); "filters": null in the body gives None.
DefaultRadius == 1000
NullFilters == [null |-> TRUE]
Filters(radius_miles, services, store_types, open_now) ==
    [null |-> FALSE, radius_miles |-> radius_miles, services |-> services,
     store_types |-> store_types, open_now |-> open_now]
DefaultFilters == Filters(DefaultRadius, <<>>, <<>>, FALSE)

SearchLocation(latitude, longitude, address, postal_code) ==
    [latitude |-> latitude, longitude |-> longitude, address |-> address,
     postal_code |-> postal_code]

\* The request of a client that makes no search.
NoRequest == [location |-> SearchLocation(NoneF, NoneF, None, None), filters |-> NullFilters]

\* model_dump_json() and model_validate_json(): the JSON text of a model and
\* the model read back from it.  Floats, strings, enums and lists of them
\* are written and read back without loss.
model_dump_json(model) == [json |-> model]
model_validate_json(text) == text.json

\* get_coordinates_from_postal_code (geocoding_service.py 38-62): the same
\* cache keys "geocoding:<string>" and the same provider call as for an
\* address.
get_coordinates_from_postal_code(postal_code, cache, provider) ==
    IF postal_code \in DOMAIN cache
    THEN [coords |-> cache[postal_code], cache |-> cache, log |-> <<>>, raised |-> None]
    ELSE IF Raised(provider) # None
         THEN [coords |-> NoCoords, cache |-> cache, log |-> <<"provider", Raised(provider)>>,
               raised |-> IF Raised(provider) \in GeocoderCaught THEN None
                          ELSE Raised(provider)]
    ELSE IF provider.found
         THEN [coords |-> provider,
               cache |-> [a \in DOMAIN cache \cup {postal_code} |->
                             IF a = postal_code THEN provider ELSE cache[a]],
               log |-> <<"provider">>, raised |-> None]
         ELSE [coords |-> NoCoords, cache |-> cache, log |-> <<"provider">>, raised |-> None]

NoLocationDetail == "Either latitude/longitude, address, or postal_code must be provided."

\* A resolution whose geocoding failures do not name the input.
ResolveCentreUnnamed(location, cache, provider) ==
    LET byAddress == get_coordinates_from_address(location.address, cache, provider)
        byPostal == get_coordinates_from_postal_code(location.postal_code, cache, provider)
        found(geo) == [code |-> 200, detail |-> "", latitude |-> geo.coords.latitude,
                       longitude |-> geo.coords.longitude, cache |-> geo.cache, log |-> geo.log]
        failed(geo) == [code |-> 400, detail |-> NoLocationDetail, latitude |-> NoneF,
                        longitude |-> NoneF, cache |-> geo.cache, log |-> geo.log]
    IN IF location.latitude # NoneF /\ location.longitude # NoneF
       THEN [code |-> 200, detail |-> "", latitude |-> location.latitude,
             longitude |-> location.longitude, cache |-> cache, log |-> <<>>]
       ELSE IF Truthy(location.address)
            THEN IF byAddress.coords.found THEN found(byAddress) ELSE failed(byAddress)
       ELSE IF Truthy(location.postal_code)
            THEN IF byPostal.coords.found THEN found(byPostal) ELSE failed(byPostal)
       ELSE failed([cache |-> cache, log |-> <<>>])

\* A resolution that takes a coordinate of 0 for a missing one.
ResolveCentreTruthy(location, cache, provider) ==
    LET byAddress == get_coordinates_from_address(location.address, cache, provider)
        byPostal == get_coordinates_from_postal_code(location.postal_code, cache, provider)
        found(geo) == [code |-> 200, detail |-> "", latitude |-> geo.coords.latitude,
                       longitude |-> geo.coords.longitude, cache |-> geo.cache, log |-> geo.log]
        failed(detail, geo) == [code |-> 400, detail |-> detail, latitude |-> NoneF,
                                longitude |-> NoneF, cache |-> geo.cache, log |-> geo.log]
    IN IF ~Falsy(location.latitude) /\ ~Falsy(location.longitude)
       THEN [code |-> 200, detail |-> "", latitude |-> location.latitude,
             longitude |-> location.longitude, cache |-> cache, log |-> <<>>]
       ELSE IF Truthy(location.address)
            THEN IF byAddress.coords.found THEN found(byAddress)
                 ELSE failed("Could not geocode address: " \o location.address, byAddress)
       ELSE IF Truthy(location.postal_code)
            THEN IF byPostal.coords.found THEN found(byPostal)
                 ELSE failed("Could not geocode postal code: " \o location.postal_code, byPostal)
       ELSE failed(NoLocationDetail, [cache |-> cache, log |-> <<>>])

\* Lines 98-127: the search centre.  code 200: search_lat and search_lon are
\* set; code 400: the HTTPException raised; code 500: an exception that
\* left the geocoding function and the handler.
ResolveCentre(location, cache, provider) ==
    LET byAddress == get_coordinates_from_address(location.address, cache, provider)
        byPostal == get_coordinates_from_postal_code(location.postal_code, cache, provider)
        found(geo) == [code |-> 200, detail |-> "", latitude |-> geo.coords.latitude,
                       longitude |-> geo.coords.longitude, cache |-> geo.cache, log |-> geo.log]
        failed(detail, geo) == [code |-> 400, detail |-> detail, latitude |-> NoneF,
                                longitude |-> NoneF, cache |-> geo.cache, log |-> geo.log]
        raised(geo) == [code |-> 500, detail |-> geo.raised, latitude |-> NoneF,
                        longitude |-> NoneF, cache |-> geo.cache, log |-> geo.log]
    IN IF location.latitude # NoneF /\ location.longitude # NoneF
       THEN [code |-> 200, detail |-> "", latitude |-> location.latitude,
             longitude |-> location.longitude, cache |-> cache, log |-> <<>>]
       ELSE IF Truthy(location.address)
            THEN IF byAddress.raised # None THEN raised(byAddress)
                 ELSE IF byAddress.coords.found THEN found(byAddress)
                 ELSE failed("Could not geocode address: " \o location.address, byAddress)
       ELSE IF Truthy(location.postal_code)
            THEN IF byPostal.raised # None THEN raised(byPostal)
                 ELSE IF byPostal.coords.found THEN found(byPostal)
                 ELSE failed("Could not geocode postal code: " \o location.postal_code, byPostal)
       ELSE failed(NoLocationDetail, [cache |-> cache, log |-> <<>>])

\* Line 129.
RadiusOf(request) ==
    IF request.filters.null THEN DefaultRadius ELSE request.filters.radius_miles

ServiceFilter(request) == IF request.filters.null THEN <<>> ELSE request.filters.services
TypeFilter(request) == IF request.filters.null THEN <<>> ELSE request.filters.store_types
OpenNow(request) == ~request.filters.null /\ request.filters.open_now

\* Store.latitude.between(...) and Store.longitude.between(...): NULL and
\* NaN are in no range.
InBox(store, bbox) ==
    /\ store.latitude.k = "num" /\ store.longitude.k = "num"
    /\ bbox.min_lat <= store.latitude.v * 1000 /\ store.latitude.v * 1000 <= bbox.max_lat
    /\ bbox.min_lon <= store.longitude.v * 1000 /\ store.longitude.v * 1000 <= bbox.max_lon

\* Lines 142-144 join Store.services once per requested name, without an
\* alias.  For two or more names the statement names the services table
\* twice and the database rejects it ("error"), or the ORM drops the
\* repeated join and all name conditions fall on the one joined row
\* ("dedup"), depending on the SQLAlchemy release.
JoinOutcomes == {"error", "dedup"}

QueryFails(request, join) == Len(ServiceFilter(request)) >= 2 /\ join = "error"

\* The query with the bounding box as its only condition.
PotentialStoresInBox(dbv, request, bbox) ==
    {id \in DOMAIN dbv.stores : InBox(dbv.stores[id], bbox)}

\* Lines 135-151: the stores the query returns.
PotentialStores(dbv, request, bbox) ==
    LET names == ServiceFilter(request)
        types == TypeFilter(request)
    IN {id \in DOMAIN dbv.stores :
          LET store == dbv.stores[id]
          IN /\ InBox(store, bbox)
             /\ store.status = "active"
             /\ names # <<>> =>
                   \E s \in store.services : \A i \in 1..Len(names) : names[i] = s
             /\ types # <<>> => store.store_type \in SeqToSet(types)}

\* The orders in which the database can return a set of rows.
Orders(S) ==
    {seq \in [1..Cardinality(S) -> S] : \A i, j \in 1..Cardinality(S) : seq[i] = seq[j] => i = j}

\* Lines 153-161: the exact distance, kept when within the radius.
StoresWithDistance(dbv, potential_stores, latitude, longitude, radius_miles) ==
    LET item(id) == [store_id |-> id,
                     distance |-> calculate_distance(latitude, longitude,
                                                     dbv.stores[id].latitude,
                                                     dbv.stores[id].longitude)]
    IN SelectSeq([i \in 1..Len(potential_stores) |-> item(potential_stores[i])],
                 LAMBDA x : x.distance <= radius_miles)

\* The list left in the order the database returned it.
SortByDistanceSkipped(items) == items

\* Line 164: list.sort(key=distance), a stable sort.
RECURSIVE SortByDistance(_)
SortByDistance(items) ==
    IF items = <<>> THEN <<>>
    ELSE LET n == Len(items)
             sorted == SortByDistance(SubSeq(items, 1, n - 1))
             x == items[n]
             k == Cardinality({i \in 1..(n - 1) : sorted[i].distance <= x.distance})
         IN SubSeq(sorted, 1, k) \o <<x>> \o SubSeq(sorted, k + 1, n - 1)

\* StoreResponse(**store.__dict__, ...) (lines 178-187, schemas.py 19-46):
\* the address fields, the phone and the hours are required strings.
StoreResponseFails(store) ==
    \/ \E f \in {"address_street", "address_city", "address_state", "address_postal_code",
                 "address_country", "phone"} : store[f] = None
    \/ \E day \in DaySet : store.hours[day] = None

\* Lines 166-187 raise for one of the stores.
FinalStoresRaise(dbv, stores_with_distance, request, now) ==
    \E i \in 1..Len(stores_with_distance) :
       LET store == dbv.stores[stores_with_distance[i].store_id]
       IN \/ IsStoreOpenRaises(store, now)
          \/ /\ ~(OpenNow(request) /\ ~is_store_open(store, now))
             /\ StoreResponseFails(store)

FinalStores(dbv, stores_with_distance, request, now) ==
    LET response(x) == [store_id |-> x.store_id, store |-> dbv.stores[x.store_id],
                        distance |-> x.distance,
                        is_open_now |-> is_store_open(dbv.stores[x.store_id], now)]
    IN SelectSeq([i \in 1..Len(stores_with_distance) |-> response(stores_with_distance[i])],
                 LAMBDA r : ~(OpenNow(request) /\ ~r.is_open_now))

\* Lines 189-196.
SearchResultsResponse(final_stores, request) ==
    [data |-> final_stores,
     metadata |-> [searched_location |-> request.location,
                   applied_filters |-> IF request.filters.null THEN DefaultFilters
                                       ELSE request.filters,
                   total_results |-> Len(final_stores)]]

\* ------------------------------------------------------ the CSV inputs
Restrict(seq, set) == SelectSeq(seq, LAMBDA c : c \in set)
Reverse(seq) == [i \in 1..Len(seq) |-> seq[Len(seq) + 1 - i]]

\* essential_headers and missing_headers of process_csv_import (lines 116-117).
essential_headers == <<"store_id", "name">>

\* Mutation of missing_headers: only the first essential header is looked for.
missing_headers_first_only(headers) ==
    IF essential_headers[1] \in SeqToSet(headers) THEN <<>> ELSE <<essential_headers[1]>>

missing_headers(headers) == Restrict(essential_headers, {h \in SeqToSet(essential_headers) : h \notin SeqToSet(headers)})
OptionalColumns == <<"store_type", "status", "latitude", "longitude", "address_street",
                     "address_city", "address_country", "phone", "services", "hours_mon">>

\* The optional columns that occur together in a header line.
ColumnGroups == {{"latitude", "longitude", "address_street"},
                 {"address_street", "address_city"},
                 {"address_street", "store_type"},
                 {"address_street", "status"},
                 {"address_street", "address_country"},
                 {"address_street", "phone"},
                 {"address_street", "hours_mon"},
                 {"address_street", "services"}}

\* The cell values a data row can carry in each column.
CellValues(column) ==
    CASE column = "store_id" -> {"S1", " S2"}
      [] column = "name" -> {"A", "B", ""}
      [] column = "store_type" -> {"", "Flagship", "bogus"}
      [] column = "status" -> {"", "inactive", "bogus"}
      [] column = "latitude" -> {"", "10", "95", "nan", "abc"}
      [] column = "longitude" -> {"", "20"}
      [] column = "address_street" -> {"", "Main"}
      [] column = "address_city" -> {"", "Boston"}
      [] column = "address_country" -> {"", "CA"}
      [] column = "phone" -> {"", "555"}
      [] column = "services" -> {"", "a", "A", "b|A"}
      [] column = "hours_mon" -> {"", "9:00-17:00", "25:00-26:00"}
      [] OTHER -> {"x"}

\* The header lines: any of the essential columns followed by optional
\* columns of one group, and the header "name,store_id".
HeaderLines ==
    {Restrict(essential_headers, req) \o Restrict(OptionalColumns, opt) :
        req \in SUBSET SeqToSet(essential_headers),
        opt \in UNION {SUBSET group : group \in ColumnGroups}}
    \cup
    {Reverse(essential_headers)}

\* The records of n cells under a header.
RECURSIVE Records(_, _)
Records(header, n) ==
    IF n = 0 THEN {<<>>}
    ELSE {Append(r, v) : r \in Records(header, n - 1), v \in CellValues(header[n])}

\* The non-blank data rows: short, full, or (after the first two cells, the
\* others left empty) with one field too many.
DataRows(header) ==
    UNION {Records(header, n) : n \in 1..Len(header)}
    \cup
    {r \o [i \in 1..(Len(header) - 1) |-> IF i < Len(header) - 1 THEN "" ELSE "x"] :
        r \in Records(header, 2)}

\* ------------------------------------------------- auth.py, permissions.py
\* Times are minutes since the start of the behaviour.
ACCESS_TOKEN_EXPIRE_MINUTES == 15
REFRESH_TOKEN_EXPIRE_DAYS == 7

\* timedelta(days=n), in minutes
timedelta_days(n) == n * 24 * 60

\* bcrypt: the hash is not the password, and checkpw accepts exactly the
\* password that was hashed.
hash_password(password) == [bcrypt |-> password]
verify_password(plain_password, hashed_password) == hashed_password.bcrypt = plain_password
hash_token(token) == [bcrypt |-> token]
verify_token_hash(token, token_hash) == token_hash.bcrypt = token

\* create_access_token: the JWT of the payload with exp and type.
create_access_token(data, utcnow) ==
    data @@ [exp |-> utcnow + ACCESS_TOKEN_EXPIRE_MINUTES, type |-> "access"]

\* decode_access_token for a token this service signed: the payload, or the
\* 401 of jwt.ExpiredSignatureError (exp <= now).
decode_access_token(token, utcnow) ==
    IF token.exp <= utcnow THEN [code |-> 401, detail |-> "Token has expired"]
    ELSE [code |-> 200, payload |-> token]

\* The users table at the start: the default admin and a marketer.
UserIds == {"U1", "U2"}
InitUsers ==
    [user_id \in UserIds |->
        [email |-> IF user_id = "U1" THEN "admin@x" ELSE "m@x",
         password_hash |-> hash_password(IF user_id = "U1" THEN "pw1" ELSE "pw2"),
         role |-> IF user_id = "U1" THEN "admin" ELSE "marketer",
         status |-> "active"]]

\* get_current_user: the user of the access token, or 401.
\* get_current_user without the test of the status.
get_current_user_any_status(token, usersv, utcnow) ==
    LET decoded == decode_access_token(token, utcnow)
    IN IF decoded.code # 200 THEN decoded
       ELSE IF decoded.payload.user_id \notin DOMAIN usersv
            THEN [code |-> 401, detail |-> "User not found or inactive"]
       ELSE [code |-> 200, user_id |-> decoded.payload.user_id]

get_current_user(token, usersv, utcnow) ==
    LET decoded == decode_access_token(token, utcnow)
    IN IF decoded.code # 200 THEN decoded
       ELSE IF decoded.payload.user_id \notin DOMAIN usersv
               \/ usersv[decoded.payload.user_id].status # "active"
            THEN [code |-> 401, detail |-> "User not found or inactive"]
       ELSE [code |-> 200, user_id |-> decoded.payload.user_id]

\* require_admin (permissions.py): the role is read from the users table.
require_admin(token, usersv, utcnow) ==
    LET current == get_current_user(token, usersv, utcnow)
    IN IF current.code # 200 THEN current
       ELSE IF usersv[current.user_id].role # "admin"
            THEN [code |-> 403, detail |-> "Admin access required"]
       ELSE current

\* A check that lets every authenticated user pass.
require_any_role(token, usersv, utcnow) == get_current_user(token, usersv, utcnow)

\* require_admin_or_marketer (permissions.py 95-103)
require_admin_or_marketer(token, usersv, utcnow) ==
    LET current == get_current_user(token, usersv, utcnow)
    IN IF current.code # 200 THEN current
       ELSE IF usersv[current.user_id].role \notin {"admin", "marketer"}
            THEN [code |-> 403, detail |-> "Admin or Marketer access required"]
       ELSE current

\* login (main.py 207-254): tokens is the refresh_tokens table, secret the
\* value create_refresh_token() draws.
login(req, usersv, tokens, secret, utcnow) ==
    LET found == {u \in DOMAIN usersv : usersv[u].email = req.email}
        user_id == CHOOSE u \in found : TRUE
    IN IF found = {} \/ ~verify_password(req.password, usersv[user_id].password_hash)
       THEN [code |-> 401, tokens |-> tokens]
       ELSE IF usersv[user_id].status # "active" THEN [code |-> 403, tokens |-> tokens]
       ELSE [code |-> 200,
             access_token |-> create_access_token(
                                  [user_id |-> user_id, email |-> usersv[user_id].email,
                                   role |-> usersv[user_id].role], utcnow),
             refresh_token |-> secret,
             tokens |-> tokens \cup {[user_id |-> user_id, token_hash |-> hash_token(secret),
                                      expires_at |-> utcnow + timedelta_days(REFRESH_TOKEN_EXPIRE_DAYS),
                                      revoked |-> FALSE]}]

\* refresh_token with revoked rows in the query.
refresh_token_revoked_too(presented, usersv, tokens, utcnow) ==
    LET matching == {t \in tokens : verify_token_hash(presented, t.token_hash)}
        token_obj == CHOOSE t \in matching : TRUE
    IN IF matching = {} THEN [code |-> 401, detail |-> "Invalid refresh token"]
       ELSE IF token_obj.expires_at < utcnow
            THEN [code |-> 401, detail |-> "Refresh token has expired"]
       ELSE IF token_obj.user_id \notin DOMAIN usersv
               \/ usersv[token_obj.user_id].status # "active"
            THEN [code |-> 401, detail |-> "User not found or inactive"]
       ELSE [code |-> 200,
             access_token |-> create_access_token(
                                  [user_id |-> token_obj.user_id,
                                   email |-> usersv[token_obj.user_id].email,
                                   role |-> usersv[token_obj.user_id].role], utcnow)]

\* refresh_token (main.py 257-299): at most one row matches a token, the
\* hashes being unique.
refresh_token(presented, usersv, tokens, utcnow) ==
    LET matching == {t \in tokens : ~t.revoked /\ verify_token_hash(presented, t.token_hash)}
        token_obj == CHOOSE t \in matching : TRUE
    IN IF matching = {} THEN [code |-> 401, detail |-> "Invalid refresh token"]
       ELSE IF token_obj.expires_at < utcnow
            THEN [code |-> 401, detail |-> "Refresh token has expired"]
       ELSE IF token_obj.user_id \notin DOMAIN usersv
               \/ usersv[token_obj.user_id].status # "active"
            THEN [code |-> 401, detail |-> "User not found or inactive"]
       ELSE [code |-> 200,
             access_token |-> create_access_token(
                                  [user_id |-> token_obj.user_id,
                                   email |-> usersv[token_obj.user_id].email,
                                   role |-> usersv[token_obj.user_id].role], utcnow)]

\* logout (main.py 301-322)
logout(presented, bearer, usersv, tokens, utcnow) ==
    LET current == get_current_user(bearer, usersv, utcnow)
        matching == {t \in tokens : /\ t.user_id = current.user_id
                                    /\ ~t.revoked
                                    /\ verify_token_hash(presented, t.token_hash)}
        token_obj == CHOOSE t \in matching : TRUE
    IN IF current.code # 200 THEN [code |-> current.code, tokens |-> tokens]
       ELSE IF matching = {} THEN [code |-> 400, tokens |-> tokens]
       ELSE [code |-> 200,
             tokens |-> (tokens \ {token_obj}) \cup {[token_obj EXCEPT !.revoked = TRUE]}]

\* update_user with a status (main.py 635-675)
update_user(bearer, user_id, status, usersv, utcnow) ==
    LET current == require_admin(bearer, usersv, utcnow)
    IN IF current.code # 200 THEN [code |-> current.code, users |-> usersv]
       ELSE IF user_id \notin DOMAIN usersv THEN [code |-> 404, users |-> usersv]
       ELSE [code |-> 200, users |-> [usersv EXCEPT ![user_id].status = status]]

\* delete_user (main.py 677-700)
delete_user(bearer, user_id, usersv, utcnow) ==
    LET current == require_admin(bearer, usersv, utcnow)
    IN IF current.code # 200 THEN [code |-> current.code, users |-> usersv]
       ELSE IF user_id = current.user_id THEN [code |-> 400, users |-> usersv]
       ELSE IF user_id \notin DOMAIN usersv THEN [code |-> 404, users |-> usersv]
       ELSE [code |-> 200, users |-> [usersv EXCEPT ![user_id].status = "inactive"]]

\* ------------------------------------------------ the admin request bodies
AdminStoreIds == {"S1"}
Closed == [day \in DaySet |-> "closed"]

\* StoreCreate bodies that pass the schema (schemas.py 94-114): coordinates
\* absent or in range, a complete address, a street alone, or no address.
StoreCreateBodies ==
    {[store_id |-> store_id, name |-> "A", store_type |-> "outlet", status |-> "active",
      latitude |-> lat, longitude |-> lon,
      address_street |-> addr[1], address_city |-> addr[2],
      address_state |-> addr[3], address_postal_code |-> addr[4],
      address_country |-> "USA", phone |-> "555", services |-> services, hours |-> Closed] :
        store_id \in AdminStoreIds,
        lat \in {NoneF, Num(0), Num(10)},
        lon \in {NoneF, Num(20)},
        addr \in {<<None, None, None, None>>, <<"Main", None, None, None>>,
                  <<"Main", "Boston", "MA", "02101">>},
        services \in {<<>>, <<"a">>}}

\* StoreUpdate bodies (schemas.py 116-127), as model_dump(exclude_unset=True).
StoreUpdateBodies ==
    {[name |-> "C"], [phone |-> "777"], [status |-> "temporarily_closed"],
     [services |-> <<"b">>], [hours_mon |-> "10:00-16:00"]}

\* --------------------------------------------------------------- state
VARIABLES
    committed,      \* the database as committed
    db,             \* the database as the request's session sees it
    geocache,       \* Redis geocoding:* keys: address -> coordinates
    pc,             \* "idle", or "import" inside the loop of process_csv_import
    header_line,    \* the header line of the client's CSV files
    upload,         \* the records of the client's file, when it is fixed in advance
    headers,        \* process_csv_import: headers
    row_number,     \* process_csv_import: row_number (1: no row read yet)
    raw_row,        \* process_csv_import: raw_row, the record last read
    results,        \* process_csv_import: results
    created_count, updated_count, failed_count,
    service_cache,  \* process_csv_import: service_cache
    geolog,         \* the throttle sleeps and provider calls of the request
    response,       \* the answer to the last request
    steps,          \* rows processed and admin requests so far
    search_cache,   \* Redis search:* keys: request -> response, both as JSON
    request,        \* the client's search request
    search_lat, search_lon,   \* search_stores: the centre resolved for it
    queried,        \* search_stores: the request queried the database
    searches,       \* search requests so far
    local_now,      \* search_stores: the datetime.now() its is_store_open calls read
    call,           \* a call of one function: its arguments and what it returned
    users,          \* the users table
    refresh_tokens, \* the refresh_tokens table
    access_tokens,  \* the access tokens clients hold
    utc_now,        \* datetime.utcnow()
    logged_out,     \* the refresh tokens of the logouts that succeeded
    authorization,  \* the access token the request presents
    inflight,       \* search_stores between its query and its setex: <<key and response>>
    expires_at,     \* Redis: when the search:* keys expire
    committed_at,   \* when the last store mutation was committed
    rate_keys,      \* Redis rate_limit:* keys: count and the minute the key expires
    limiter,        \* the calls of rate_limit in progress: position and locals
    arrived,        \* search requests that reached rate_limit so far
    passed          \* per client, the requests rate_limit let through, by the window they read

vars == <<committed, db, geocache, pc, header_line, upload, headers, row_number, raw_row, results,
          created_count, updated_count, failed_count, service_cache, geolog, response, steps,
          search_cache, request, search_lat, search_lon, queried, searches, local_now, call,
          users,
          refresh_tokens, access_tokens, utc_now, logged_out, authorization, inflight,
          expires_at, committed_at, rate_keys, limiter, arrived, passed>>

\* No function is called on its own.
NoCall == [fn |-> "none", returned |-> FALSE]

\* What the requests on stores leave untouched.
authvars == <<users, refresh_tokens, access_tokens, utc_now, logged_out, authorization>>
racevars == <<inflight, expires_at, committed_at>>
ratevars == <<rate_keys, limiter, arrived, passed>>
othervars == <<call, authvars, racevars, ratevars>>

\* settings.RATE_LIMIT_PER_MINUTE and settings.RATE_LIMIT_PER_HOUR, read from
\* the environment (config.py 17-18); the deployment modelled sets them low.
RATE_LIMIT_PER_MINUTE == 2
RATE_LIMIT_PER_HOUR == 3
\* Calls of rate_limit in progress at one time, and search requests in all.
MaxInflight == 2
MaxArrivals == 4
ClientHosts == {"10.0.0.1", "10.0.0.2"}

NoLimiterCall == [pc |-> "idle", ip_address |-> None, current_minute |-> 0, current_hour |-> 0]

\* No request is in rate_limit and Redis holds no rate_limit:* key.
RateIdle ==
    /\ rate_keys = NoCache
    /\ limiter = [slot \in 1..MaxInflight |-> NoLimiterCall]
    /\ arrived = 0
    /\ passed = [ip_address \in ClientHosts |-> [minute |-> 0, hour |-> 0]]

\* No search is between its query and its setex; nothing was committed.
RaceIdle ==
    /\ inflight = <<>>
    /\ expires_at = NoCache
    /\ committed_at = 0

\* Nobody has logged in.
AuthIdle ==
    /\ users = InitUsers
    /\ refresh_tokens = {}
    /\ access_tokens = {}
    /\ utc_now = 0
    /\ logged_out = {}
    /\ authorization = None

\* What search_stores leaves behind.
searchvars == <<search_cache, request, search_lat, search_lon, queried, searches, local_now>>

\* No search has read the clock.
NoTime == [day |-> "none", minute |-> 0]

\* No search has been made.
SearchIdle ==
    /\ search_cache = NoCache
    /\ request = NoRequest
    /\ search_lat = NoneF
    /\ search_lon = NoneF
    /\ queried = FALSE
    /\ searches = 0
    /\ local_now = NoTime

Init ==
    /\ committed = EmptyDB
    /\ db = EmptyDB
    /\ geocache = NoCache
    /\ pc = "idle"
    /\ header_line \in HeaderLines
    /\ upload = <<>>
    /\ headers = <<>>
    /\ row_number = 1
    /\ raw_row = NoRow
    /\ results = <<>>
    /\ created_count = 0
    /\ updated_count = 0
    /\ failed_count = 0
    /\ service_cache = NoCache
    /\ geolog = <<>>
    /\ response = NoResponse
    /\ steps = 0
    /\ SearchIdle
    /\ call = NoCall
    /\ AuthIdle
    /\ RaceIdle
    /\ RateIdle

\* The locals of process_csv_import once the request is over.
ImportLocalsCleared ==
    /\ row_number' = 1
    /\ results' = <<>>
    /\ created_count' = 0
    /\ updated_count' = 0
    /\ failed_count' = 0
    /\ service_cache' = NoCache

\* import_stores_csv answering an exception of process_csv_import (main.py
\* 552-563): db.rollback() and an error status.  headers and raw_row stay as
\* the exception left them.
ImportFailed(code) ==
    /\ db' = committed
    /\ pc' = "idle"
    /\ response' = [op |-> "import", code |-> code]
    /\ ImportLocalsCleared
    /\ UNCHANGED <<committed, header_line, upload>>

\* POST /api/admin/stores/import up to the first data row (csv_import.py
\* 94-122): an empty file or a header without store_id or name raises
\* ValueError; otherwise the services are loaded and the loop starts.
ImportBegin ==
    /\ pc = "idle"
    /\ UNCHANGED searchvars
    /\ UNCHANGED othervars
    /\ geolog' = <<>>
    /\ raw_row' = NoRow
    /\ \/ /\ headers' = <<>>
          /\ ImportFailed(400)
          /\ UNCHANGED <<geocache, steps>>
       \/ /\ headers' = header_line
          /\ IF missing_headers(header_line) # <<>>
             THEN /\ ImportFailed(400)
                  /\ UNCHANGED <<geocache, steps>>
             ELSE /\ pc' = "import"
                  /\ row_number' = 1
                  /\ results' = <<>>
                  /\ created_count' = 0
                  /\ updated_count' = 0
                  /\ failed_count' = 0
                  /\ service_cache' = [n \in ServiceNames(db.services) |->
                                          CHOOSE svc \in db.services : svc.name = n]
                  /\ response' = NoResponse
                  /\ UNCHANGED <<committed, db, geocache, header_line, upload, steps>>

\* One iteration of the loop of process_csv_import on the record cells:
\* strip, validate, resolve the coordinates (the provider, if the row makes
\* the import call it, answers with any of its outcomes), run the try block
\* and leave the savepoint.
ProcessRecord(cells) ==
    \E raw \in {DictReader(headers, cells)} :
    \E reached \in {~StripFails(raw)} :
    \E row \in {IF reached THEN StripRow(raw) ELSE raw} :
    \E valid \in {IF reached THEN validate_store_row(row) ELSE Valid} :
    \E geo \in (IF reached /\ valid.ok
                THEN {ResolveCoordinates(row, geocache, provider) : provider \in ProviderOutcomes}
                ELSE {NoLookup(geocache)}) :
    \E attempt \in {IF reached /\ valid.ok
                    THEN IF geo.raised # None
                         THEN RaisedInRow(db, service_cache, row, row_number + 1, geo.raised)
                         ELSE TryRow(db, service_cache, row, row_number + 1, geo.latitude,
                                     geo.longitude, created_count + updated_count)
                    ELSE NoAttempt} :
    \E out \in {RowOutcome(db, service_cache, geocache, raw, row, valid, geo, attempt,
                           row_number + 1)} :
       /\ raw_row' = raw
       /\ steps' = steps + 1
       /\ UNCHANGED searchvars
       /\ UNCHANGED othervars
       /\ geocache' = out.gcache
       /\ geolog' = geolog \o out.log
       /\ UNCHANGED headers
       /\ IF out.abort # 0
          THEN ImportFailed(out.abort)
          ELSE /\ row_number' = row_number + 1
               /\ results' = results \o out.entries
               /\ created_count' = created_count + out.created
               /\ updated_count' = updated_count + out.updated
               /\ failed_count' = failed_count + out.failed
               /\ db' = out.db
               /\ service_cache' = out.cache
               /\ UNCHANGED <<committed, pc, header_line, upload, response>>

\* The reader yields one more data row.
ImportRow ==
    /\ pc = "import"
    /\ steps < MaxSteps
    /\ \E cells \in DataRows(headers) : ProcessRecord(cells)

\* The reader is exhausted: process_csv_import returns the report (lines
\* 304-310) and import_stores_csv commits (main.py 549-551).
ImportEnd ==
    /\ pc = "import"
    /\ committed' = db
    /\ pc' = "idle"
    /\ response' = [op |-> "import", code |-> 200,
                    report |-> [total_rows |-> Len(results), created |-> created_count,
                                updated |-> updated_count, failed |-> failed_count,
                                results |-> results]]
    /\ ImportLocalsCleared
    /\ headers' = <<>>
    /\ raw_row' = NoRow
    /\ UNCHANGED <<db, geocache, header_line, upload, geolog, steps>>
    /\ UNCHANGED searchvars
    /\ UNCHANGED othervars

\* An admin request outside an import: it runs in a session of its own and
\* commits or leaves the database as it was.
\* An admin request that also clears the search results of the cache.
AdminDoneInvalidating(op, code, dbw) ==
    /\ committed' = dbw
    /\ db' = dbw
    /\ response' = [op |-> op, code |-> code]
    /\ steps' = steps + 1
    /\ search_cache' = NoCache
    /\ UNCHANGED <<pc, header_line, upload, headers, row_number, raw_row, results, created_count,
                   updated_count, failed_count, service_cache>>
    /\ UNCHANGED <<request, search_lat, search_lon, queried, searches, local_now>>
    /\ UNCHANGED othervars

AdminDone(op, code, dbw) ==
    /\ committed' = dbw
    /\ db' = dbw
    /\ response' = [op |-> op, code |-> code]
    /\ steps' = steps + 1
    /\ UNCHANGED <<pc, header_line, upload, headers, row_number, raw_row, results, created_count,
                   updated_count, failed_count, service_cache>>
    /\ UNCHANGED searchvars
    /\ UNCHANGED othervars

\* POST /api/admin/stores
CreateStore ==
    /\ pc = "idle"
    /\ steps < MaxSteps
    /\ \E store_data \in StoreCreateBodies :
          \E out \in {create_store(committed, geocache, store_data, provider) :
                          provider \in ProviderOutcomes} :
             /\ AdminDone("create_store", out.code, out.db)
             /\ geocache' = out.gcache
             /\ geolog' = out.log

\* PATCH /api/admin/stores/{store_id}
UpdateStore ==
    /\ pc = "idle"
    /\ steps < MaxSteps
    /\ \E store_id \in AdminStoreIds, update_data \in StoreUpdateBodies :
          \E out \in {update_store(committed, store_id, update_data)} :
             /\ AdminDone("update_store", out.code, out.db)
             /\ geolog' = <<>>
             /\ UNCHANGED geocache

\* DELETE /api/admin/stores/{store_id}
DeleteStore ==
    /\ pc = "idle"
    /\ steps < MaxSteps
    /\ \E store_id \in AdminStoreIds :
          \E out \in {delete_store(committed, store_id)} :
             /\ AdminDone("delete_store", out.code, out.db)
             /\ geolog' = <<>>
             /\ UNCHANGED geocache

Next == ImportBegin \/ ImportRow \/ ImportEnd \/ CreateStore \/ UpdateStore \/ DeleteStore

Spec == Init /\ [][Next]_vars

\* ------------------------------------------- one import of a whole file
\* Files whose service names differ only in case: a store created with "a",
\* updated with "b|A", with "B", k times without services, and with "b".
UploadHeader == <<"store_id", "name", "latitude", "longitude", "services">>
UploadRecord(services) == <<"S1", "A", "10", "20", services>>
Uploads ==
    {<<UploadRecord("a"), UploadRecord("b|A"), UploadRecord("B")>>
        \o [i \in 1..k |-> UploadRecord("")] \o <<UploadRecord("b")>> : k \in 0..MaxPlain}

InitUpload ==
    /\ committed = EmptyDB
    /\ db = EmptyDB
    /\ geocache = NoCache
    /\ pc = "idle"
    /\ header_line = UploadHeader
    /\ upload \in Uploads
    /\ headers = <<>>
    /\ row_number = 1
    /\ raw_row = NoRow
    /\ results = <<>>
    /\ created_count = 0
    /\ updated_count = 0
    /\ failed_count = 0
    /\ service_cache = NoCache
    /\ geolog = <<>>
    /\ response = NoResponse
    /\ steps = 0
    /\ SearchIdle
    /\ call = NoCall
    /\ AuthIdle
    /\ RaceIdle
    /\ RateIdle

UploadBegin == steps = 0 /\ ImportBegin

\* The reader yields the next record of the file.
UploadRow ==
    /\ pc = "import"
    /\ row_number <= Len(upload)
    /\ ProcessRecord(upload[row_number])

UploadEnd ==
    /\ row_number > Len(upload)
    /\ ImportEnd

NextUpload == UploadBegin \/ UploadRow \/ UploadEnd

SpecUpload == InitUpload /\ [][NextUpload]_vars

\* ------------------------------------------------- searches and mutations
\* The search requests of the clients: every way of giving the location with
\* the default filters and with a radius of 100 miles, and a range of filters
\* around the point (10, 20).
SearchLocations ==
    {SearchLocation(Num(10), Num(20), None, None),
     SearchLocation(Num(0), Num(20), None, None),
     SearchLocation(Num(10), Num(20), "Main", "02101"),
     SearchLocation(Num(10), NoneF, "Main", "02101"),
     SearchLocation(NoneF, Num(20), None, None),
     SearchLocation(NoneF, NoneF, "Main", None),
     SearchLocation(NoneF, NoneF, None, "02101"),
     SearchLocation(NoneF, NoneF, "", "02101"),
     SearchLocation(NoneF, NoneF, None, None)}

SearchFilterSets ==
    {NullFilters, DefaultFilters,
     Filters(6890, <<>>, <<>>, FALSE),
     Filters(7000, <<>>, <<>>, FALSE),
     Filters(10000, <<>>, <<>>, FALSE),
     Filters(10000, <<"a">>, <<>>, FALSE),
     Filters(10000, <<"a", "b">>, <<>>, FALSE),
     Filters(10000, <<>>, <<"flagship">>, FALSE),
     Filters(10000, <<"b">>, <<"flagship", "regular">>, FALSE),
     Filters(10000, <<>>, <<>>, TRUE)}

SearchRequests ==
    {[location |-> location, filters |-> filters] :
        location \in SearchLocations, filters \in {DefaultFilters, Filters(10000, <<>>, <<>>, FALSE)}}
    \cup
    {[location |-> SearchLocation(Num(10), Num(20), None, None), filters |-> filters] :
        filters \in SearchFilterSets}

\* The stores of the catalogue the searches run on, as the admin created
\* them: S1 at the point (10, 20), S2 69 miles north of it, S3 97 miles
\* north-east, S4 (inactive) 68 miles east.
CatalogStore(store_id, latitude, longitude, store_type, status, services, hours_mon) ==
    [store_id |-> store_id, name |-> "A", store_type |-> store_type, status |-> status,
     latitude |-> Num(latitude), longitude |-> Num(longitude),
     address_street |-> "Main", address_city |-> "Boston",
     address_state |-> "MA", address_postal_code |-> "02101",
     address_country |-> "USA", phone |-> "555", services |-> services,
     hours |-> [Closed EXCEPT !["mon"] = hours_mon]]

CatalogBodies ==
    <<CatalogStore("S4", 10, 21, "outlet", "inactive", <<"a">>, "closed"),
      CatalogStore("S3", 11, 21, "regular", "active", <<"b">>, "closed"),
      CatalogStore("S2", 11, 20, "flagship", "active", <<"a", "b">>, "9:00-17:00"),
      CatalogStore("S1", 10, 20, "outlet", "active", <<"a">>, "22:00-6:00")>>

\* The database after POST /api/admin/stores for each of the bodies.
RECURSIVE Seed(_)
Seed(bodies) ==
    IF bodies = <<>> THEN EmptyDB
    ELSE create_store(Seed(SubSeq(bodies, 1, Len(bodies) - 1)), NoCache,
                      bodies[Len(bodies)], NoCoords).db

Catalogs == {Seed(SubSeq(CatalogBodies, 1, 3)), Seed(CatalogBodies)}

\* POST /api/stores/search (main.py 82-204) for one request, with the answer
\* the provider gives if it is called, the reading of the clock and the
\* behaviour of the repeated join.
SearchDone(req, code) ==
    /\ searches' = searches + 1
    /\ UNCHANGED <<committed, db, pc, header_line, upload, headers, row_number, raw_row, results,
                   created_count, updated_count, failed_count, service_cache, steps, request>>
    /\ UNCHANGED othervars

\* A lookup that finds no entry, whatever the cache holds.
CacheMiss(cache, cache_key) == FALSE

\* Lines 92-94: redis_client.get finds an entry under the key.
CacheHit(cache, cache_key) == cache_key \in DOMAIN cache

SearchStores(req, provider, now, join) ==
    \E cache_key \in {model_dump_json(req)} :
       IF CacheHit(search_cache, cache_key)
       THEN /\ response' = [op |-> "search", code |-> 200,
                            body |-> model_validate_json(search_cache[cache_key])]
            /\ search_lat' = NoneF
            /\ search_lon' = NoneF
            /\ queried' = FALSE
            /\ geolog' = <<>>
            /\ SearchDone(req, 200)
            /\ UNCHANGED <<search_cache, geocache>>
       ELSE
       \E centre \in {ResolveCentre(req.location, geocache, provider)} :
          /\ search_lat' = centre.latitude
          /\ search_lon' = centre.longitude
          /\ geocache' = centre.cache
          /\ geolog' = centre.log
          /\ IF centre.code # 200
             THEN /\ response' = [op |-> "search", code |-> centre.code, detail |-> centre.detail]
                  /\ queried' = FALSE
                  /\ SearchDone(req, centre.code)
                  /\ UNCHANGED search_cache
             ELSE
             \E radius_miles \in {RadiusOf(req)} :
             \E bbox \in {calculate_bounding_box(centre.latitude, centre.longitude, radius_miles)} :
             \E potential_stores \in (IF QueryFails(req, join) THEN {<<>>}
                                      ELSE Orders(PotentialStores(committed, req, bbox))) :
             \E stores_with_distance \in
                   {SortByDistance(StoresWithDistance(committed, potential_stores, centre.latitude,
                                                      centre.longitude, radius_miles))} :
             \E raised \in {QueryFails(req, join)
                            \/ FinalStoresRaise(committed, stores_with_distance, req, now)} :
             \E body \in {IF raised THEN SearchResultsResponse(<<>>, req)
                          ELSE SearchResultsResponse(
                                   FinalStores(committed, stores_with_distance, req, now), req)} :
                /\ queried' = TRUE
                /\ IF raised
                   THEN /\ response' = [op |-> "search", code |-> 500]
                        /\ SearchDone(req, 500)
                        /\ UNCHANGED search_cache
                   ELSE /\ response' = [op |-> "search", code |-> 200, body |-> body]
                        /\ search_cache' =
                              [k \in DOMAIN search_cache \cup {cache_key} |->
                                  IF k = cache_key THEN model_dump_json(body)
                                  ELSE search_cache[k]]
                        /\ SearchDone(req, 200)

Search ==
    /\ pc = "idle"
    /\ searches < MaxSearches
    /\ \E provider \in ProviderOutcomes, now \in Clock, join \in JoinOutcomes :
          /\ SearchStores(request, provider, now, join)
          /\ local_now' = IF queried' THEN now ELSE NoTime

\* Redis drops a search:* key whose TTL has run out.
ExpireSearch ==
    /\ pc = "idle"
    /\ \E key \in DOMAIN search_cache :
          search_cache' = [k \in DOMAIN search_cache \ {key} |-> search_cache[k]]
    /\ UNCHANGED <<committed, db, geocache, pc, header_line, upload, headers, row_number, raw_row,
                   results, created_count, updated_count, failed_count, service_cache, geolog,
                   response, steps, request, search_lat, search_lon, queried, searches, local_now>>
    /\ UNCHANGED othervars

\* Redis drops a geocoding:* key whose TTL has run out.
ExpireGeocode ==
    /\ pc = "idle"
    /\ \E key \in DOMAIN geocache :
          geocache' = [k \in DOMAIN geocache \ {key} |-> geocache[k]]
    /\ UNCHANGED <<committed, db, pc, header_line, upload, headers, row_number, raw_row,
                   results, created_count, updated_count, failed_count, service_cache, geolog,
                   response, steps, search_cache, request, search_lat, search_lon, queried,
                   searches, local_now>>
    /\ UNCHANGED othervars

SearchHeader == <<"store_id", "name", "address_street">>

InitSearch ==
    /\ committed \in Catalogs
    /\ db = committed
    /\ geocache = NoCache
    /\ pc = "idle"
    /\ header_line = SearchHeader
    /\ upload = <<>>
    /\ headers = <<>>
    /\ row_number = 1
    /\ raw_row = NoRow
    /\ results = <<>>
    /\ created_count = 0
    /\ updated_count = 0
    /\ failed_count = 0
    /\ service_cache = NoCache
    /\ geolog = <<>>
    /\ response = NoResponse
    /\ steps = 0
    /\ search_cache = NoCache
    /\ request \in SearchRequests
    /\ search_lat = NoneF
    /\ search_lon = NoneF
    /\ queried = FALSE
    /\ searches = 0
    /\ local_now = NoTime
    /\ call = NoCall
    /\ AuthIdle
    /\ RaceIdle
    /\ RateIdle

NextSearch ==
    \/ Search \/ ExpireSearch \/ ExpireGeocode
    \/ (steps < MaxMutations /\ CreateStore)
    \/ (steps < MaxMutations /\ UpdateStore)
    \/ (steps < MaxMutations /\ DeleteStore)
    \/ (steps < MaxMutations /\ ImportBegin)
    \/ (steps < MaxMutations /\ ImportRow)
    \/ ImportEnd

SpecSearch == InitSearch /\ [][NextSearch]_vars

\* ------------------------------------------------- single function calls
\* The hours strings a stored hours_* column is given in the calls.
StoredHours == {"closed", "9:00-17:00", "22:00-6:00", "6:00-6:00", "", "9:00", "25:00-26:00",
                "24:00-6:00", None}

\* The moments at which is_store_open is called: 03:00, 10:00 and 23:00 of
\* a Monday and of the Tuesday after it.
Moments == {[day |-> d, minute |-> m] : d \in {"mon", "tue"}, m \in {180, 600, 1380}}

\* A Store row as far as is_store_open reads it.
HoursStore(status, mon, tue) ==
    [status |-> status,
     hours |-> [day \in DaySet |-> IF day = "mon" THEN mon ELSE IF day = "tue" THEN tue
                                                           ELSE "closed"]]

IsStoreOpenCalls ==
    {[fn |-> "is_store_open", returned |-> FALSE, store |-> HoursStore(status, mon, tue),
      now |-> now] :
        status \in StoreStatus, mon \in StoredHours, tue \in StoredHours, now \in Moments}

\* The call returns value, or raises.
Return(raised, value) ==
    /\ ~call.returned
    /\ call' = [call EXCEPT !.returned = TRUE] @@ [raised |-> raised, value |-> value]
    /\ UNCHANGED <<committed, db, geocache, pc, header_line, upload, headers, row_number, raw_row,
                   results, created_count, updated_count, failed_count, service_cache, geolog,
                   response, steps>>
    /\ UNCHANGED searchvars
    /\ UNCHANGED authvars
    /\ UNCHANGED racevars
    /\ UNCHANGED ratevars

IsStoreOpenCall ==
    /\ call.fn = "is_store_open"
    /\ IF IsStoreOpenRaises(call.store, call.now)
       THEN Return(TRUE, FALSE)
       ELSE Return(FALSE, is_store_open(call.store, call.now))

\* calculate_bounding_box at the equator, in mid latitudes, next to a pole
\* and at the poles, on and off the 180th meridian, for radii from a tenth
\* of a mile to 100 miles.
BoundingBoxCalls ==
    {[fn |-> "calculate_bounding_box", returned |-> FALSE, latitude |-> Num(lat),
      longitude |-> Num(lon), radius_miles |-> radius] :
        lat \in {0 - 90, 0 - 89, 0 - 10, 0, 10, 42, 89, 90},
        lon \in {0 - 180, 0, 20, 180},
        radius \in {10, 500, 1000, 6890, 10000}}

BoundingBoxCall ==
    /\ call.fn = "calculate_bounding_box"
    /\ Return(FALSE, calculate_bounding_box(call.latitude, call.longitude, call.radius_miles))

\* The hours cells validate_hours is called on.
HoursCells ==
    {"closed", "Closed", "CLOSED", "08:00-22:00", "8:00-22:00", "00:00-23:59", "22:00-06:00",
     "6:00-24:00", "24:01-6:00", "08:00", "08:00-22:00-23:00", "25:00-26:00", "abc-def",
     "8:60-9:00", "8:5-9:00", "008:00-9:00", "8:00 - 9:00", "8:00:00-9:00", "8.00-9.00", "-",
     "open", ""}

ValidateHoursCalls == {[fn |-> "validate_hours", returned |-> FALSE, hours_str |-> h] : h \in HoursCells}

ValidateHoursCall ==
    /\ call.fn = "validate_hours"
    /\ Return(FALSE, validate_hours(call.hours_str))

\* The services cells parse_services is called on.
ServicesCells ==
    {"", "a", "a|b", "b|a", " a | b ", "a||b", "|", " ", "a| |b", "b|a|b", "|a", "a|", "a b|c",
     " a", "a|b|c"}

ParseServicesCalls ==
    {[fn |-> "parse_services", returned |-> FALSE, services_str |-> s] : s \in ServicesCells}

ParseServicesCall ==
    /\ call.fn = "parse_services"
    /\ Return(FALSE, parse_services(call.services_str))

InitCall ==
    /\ committed = EmptyDB
    /\ db = EmptyDB
    /\ geocache = NoCache
    /\ pc = "idle"
    /\ header_line = <<>>
    /\ upload = <<>>
    /\ headers = <<>>
    /\ row_number = 1
    /\ raw_row = NoRow
    /\ results = <<>>
    /\ created_count = 0
    /\ updated_count = 0
    /\ failed_count = 0
    /\ service_cache = NoCache
    /\ geolog = <<>>
    /\ response = NoResponse
    /\ steps = 0
    /\ SearchIdle
    /\ call \in IsStoreOpenCalls \cup BoundingBoxCalls \cup ValidateHoursCalls
                \cup ParseServicesCalls
    /\ AuthIdle
    /\ RaceIdle
    /\ RateIdle

NextCall == IsStoreOpenCall \/ BoundingBoxCall \/ ValidateHoursCall \/ ParseServicesCall

SpecCall == InitCall /\ [][NextCall]_vars

\* ----------------------------------------------------- the auth requests
\* Logins that succeed.
MaxTokens == 2

\* The instants of the requests: the start, and the ends of the lives of an
\* access token and of a refresh token issued at the start, and one access
\* token life after the latter.
Instants ==
    {0, ACCESS_TOKEN_EXPIRE_MINUTES, timedelta_days(REFRESH_TOKEN_EXPIRE_DAYS),
     timedelta_days(REFRESH_TOKEN_EXPIRE_DAYS) + ACCESS_TOKEN_EXPIRE_MINUTES}

LoginRequests ==
    {[email |-> e, password |-> pw] : e \in {"admin@x", "m@x", "nobody@x"}, pw \in {"pw1", "pw2"}}

\* The refresh tokens a client can present: those issued, and one that never was.
PresentedTokens == {0} \cup {t.token_hash.bcrypt : t \in refresh_tokens}

\* What the auth and user requests leave untouched.
AuthDone ==
    /\ UNCHANGED <<committed, db, geocache, pc, header_line, upload, headers, row_number, raw_row,
                   results, created_count, updated_count, failed_count, service_cache, geolog,
                   steps>>
    /\ UNCHANGED searchvars
    /\ UNCHANGED call
    /\ UNCHANGED racevars
    /\ UNCHANGED ratevars

\* The access tokens clients hold: of each user the one issued last.
Issued(out) ==
    IF out.code = 200
    THEN {a \in access_tokens : a.user_id # out.access_token.user_id} \cup {out.access_token}
    ELSE access_tokens

\* POST /api/auth/login; create_refresh_token() draws a value never drawn before.
Login ==
    /\ Cardinality(refresh_tokens) < MaxTokens
    /\ \E req \in LoginRequests :
          \E out \in {login(req, users, refresh_tokens, Cardinality(refresh_tokens) + 1, utc_now)} :
             /\ refresh_tokens' = out.tokens
             /\ access_tokens' = Issued(out)
             /\ response' = [op |-> "login", email |-> req.email]
                             @@ [f \in DOMAIN out \ {"tokens"} |-> out[f]]
    /\ authorization' = None
    /\ UNCHANGED <<users, utc_now, logged_out>>
    /\ AuthDone

\* POST /api/auth/refresh
Refresh ==
    /\ \E presented \in PresentedTokens :
          \E out \in {refresh_token(presented, users, refresh_tokens, utc_now)} :
             /\ access_tokens' = Issued(out)
             /\ response' = [op |-> "refresh", refresh_token |-> presented] @@ out
    /\ authorization' = None
    /\ UNCHANGED <<users, refresh_tokens, utc_now, logged_out>>
    /\ AuthDone

\* POST /api/auth/logout
Logout ==
    /\ \E presented \in PresentedTokens, bearer \in access_tokens :
          \E out \in {logout(presented, bearer, users, refresh_tokens, utc_now)} :
             /\ refresh_tokens' = out.tokens
             /\ logged_out' = IF out.code = 200 THEN logged_out \cup {presented} ELSE logged_out
             /\ response' = [op |-> "logout", code |-> out.code, refresh_token |-> presented]
             /\ authorization' = bearer
    /\ UNCHANGED <<users, access_tokens, utc_now>>
    /\ AuthDone

\* PUT /api/admin/users/{user_id} with a status
UpdateUser ==
    /\ \E bearer \in access_tokens, user_id \in UserIds, status \in {"active", "inactive"} :
          \E out \in {update_user(bearer, user_id, status, users, utc_now)} :
             /\ users' = out.users
             /\ response' = [op |-> "update_user", code |-> out.code, user_id |-> user_id]
             /\ authorization' = bearer
    /\ UNCHANGED <<refresh_tokens, access_tokens, utc_now, logged_out>>
    /\ AuthDone

\* DELETE /api/admin/users/{user_id}
DeleteUser ==
    /\ \E bearer \in access_tokens, user_id \in UserIds :
          \E out \in {delete_user(bearer, user_id, users, utc_now)} :
             /\ users' = out.users
             /\ response' = [op |-> "delete_user", code |-> out.code, user_id |-> user_id]
             /\ authorization' = bearer
    /\ UNCHANGED <<refresh_tokens, access_tokens, utc_now, logged_out>>
    /\ AuthDone

\* Time passes between two requests.
Tick ==
    /\ \E instant \in Instants :
          /\ instant > utc_now
          /\ utc_now' = instant
    /\ UNCHANGED <<users, refresh_tokens, access_tokens, logged_out, response, authorization>>
    /\ AuthDone

InitAuth ==
    /\ committed = EmptyDB
    /\ db = EmptyDB
    /\ geocache = NoCache
    /\ pc = "idle"
    /\ header_line = <<>>
    /\ upload = <<>>
    /\ headers = <<>>
    /\ row_number = 1
    /\ raw_row = NoRow
    /\ results = <<>>
    /\ created_count = 0
    /\ updated_count = 0
    /\ failed_count = 0
    /\ service_cache = NoCache
    /\ geolog = <<>>
    /\ response = NoResponse
    /\ steps = 0
    /\ SearchIdle
    /\ call = NoCall
    /\ AuthIdle
    /\ RaceIdle
    /\ RateIdle

NextAuth == Login \/ Refresh \/ Logout \/ UpdateUser \/ DeleteUser \/ Tick

SpecAuth == InitAuth /\ [][NextAuth]_vars

\* --------------------------------------------- store requests of one caller
\* The users of these behaviours: the admin, the marketer and a viewer, each
\* logged in at the start.
AccessUsers ==
    [user_id \in UserIds \cup {"U3"} |->
        IF user_id \in UserIds THEN InitUsers[user_id]
        ELSE [email |-> "v@x", password_hash |-> hash_password("pw3"), role |-> "viewer",
              status |-> "active"]]

AccessToken(user_id) ==
    create_access_token([user_id |-> user_id, email |-> AccessUsers[user_id].email,
                         role |-> AccessUsers[user_id].role], 0)

\* The answer of a dependency that raised: the handler does not run.
Denied(op, code) ==
    /\ response' = [op |-> op, code |-> code]
    /\ UNCHANGED <<committed, db, geocache, pc, header_line, upload, headers, row_number, raw_row,
                   results, created_count, updated_count, failed_count, service_cache, geolog,
                   steps>>
    /\ UNCHANGED searchvars
    /\ UNCHANGED othervars

\* A store request of the caller: Depends(require_admin_or_marketer), then
\* the handler (main.py 328, 467, 514, 534).
Guarded(op, handler) ==
    /\ pc = "idle"
    /\ \E current \in {require_admin_or_marketer(authorization, users, utc_now)} :
          IF current.code = 200 THEN handler ELSE Denied(op, current.code)

CallerCreateStore == Guarded("create_store", CreateStore)
CallerUpdateStore == Guarded("update_store", UpdateStore)
CallerDeleteStore == Guarded("delete_store", DeleteStore)
CallerImportBegin == Guarded("import", ImportBegin)

InitAccess ==
    /\ committed \in {EmptyDB, Seed(<<CatalogBodies[4]>>)}
    /\ db = committed
    /\ geocache = NoCache
    /\ pc = "idle"
    /\ header_line = SearchHeader
    /\ upload = <<>>
    /\ headers = <<>>
    /\ row_number = 1
    /\ raw_row = NoRow
    /\ results = <<>>
    /\ created_count = 0
    /\ updated_count = 0
    /\ failed_count = 0
    /\ service_cache = NoCache
    /\ geolog = <<>>
    /\ response = NoResponse
    /\ steps = 0
    /\ SearchIdle
    /\ call = NoCall
    /\ users = AccessUsers
    /\ refresh_tokens = {}
    /\ access_tokens = {AccessToken(user_id) : user_id \in DOMAIN AccessUsers}
    /\ utc_now \in {0, ACCESS_TOKEN_EXPIRE_MINUTES}
    /\ logged_out = {}
    /\ authorization \in access_tokens
    /\ RaceIdle
    /\ RateIdle

NextAccess ==
    \/ CallerCreateStore
    \/ CallerUpdateStore
    \/ CallerDeleteStore
    \/ CallerImportBegin
    \/ ImportRow
    \/ ImportEnd

SpecAccess == InitAccess /\ [][NextAccess]_vars

\* -------------------------------------- searches concurrent with mutations
\* The handlers run in several worker processes: a mutation can be committed
\* between the query of a search (main.py 150) and its setex (main.py 198).
SEARCH_RESULTS_CACHE_TTL_MINUTES == 10
\* The last minute of the clock.
MaxMinutes == 12

RaceRequest ==
    [location |-> SearchLocation(Num(10), Num(20), None, None),
     filters |-> Filters(10000, <<>>, <<>>, FALSE)]

\* redis_client.get finds the key: it was set and its TTL has not run out.
CacheLive(cache_key) == cache_key \in DOMAIN search_cache /\ utc_now < expires_at[cache_key]

RaceDone ==
    /\ UNCHANGED <<pc, header_line, upload, headers, row_number, raw_row, results, created_count,
                   updated_count, failed_count, service_cache, geocache, geolog, request,
                   search_lat, search_lon, queried, local_now>>
    /\ UNCHANGED <<call, authvars, ratevars>>

\* search_stores up to the response it builds (main.py 82-196).
SearchArrives ==
    /\ inflight = <<>>
    /\ searches < MaxSearches
    /\ \E cache_key \in {model_dump_json(request)} :
          IF CacheLive(cache_key)
          THEN /\ response' = [op |-> "search", code |-> 200,
                               body |-> model_validate_json(search_cache[cache_key])]
               /\ searches' = searches + 1
               /\ UNCHANGED inflight
          ELSE
          \E now \in Clock, join \in JoinOutcomes :
          \E radius_miles \in {RadiusOf(request)} :
          \E bbox \in {calculate_bounding_box(request.location.latitude,
                                              request.location.longitude, radius_miles)} :
          \E potential_stores \in (IF QueryFails(request, join) THEN {<<>>}
                                   ELSE Orders(PotentialStores(committed, request, bbox))) :
          \E stores_with_distance \in
                {SortByDistance(StoresWithDistance(committed, potential_stores,
                                                   request.location.latitude,
                                                   request.location.longitude, radius_miles))} :
          \E raised \in {QueryFails(request, join)
                         \/ FinalStoresRaise(committed, stores_with_distance, request, now)} :
             IF raised
             THEN /\ response' = [op |-> "search", code |-> 500]
                  /\ searches' = searches + 1
                  /\ UNCHANGED inflight
             ELSE /\ inflight' = <<[cache_key |-> cache_key,
                                   body |-> SearchResultsResponse(
                                                FinalStores(committed, stores_with_distance,
                                                            request, now), request)]>>
                  /\ UNCHANGED <<response, searches>>
    /\ UNCHANGED <<committed, db, steps, search_cache, expires_at, committed_at>>
    /\ RaceDone

\* search_stores from its setex to its return (main.py 197-204).
SearchCaches ==
    /\ inflight # <<>>
    /\ search_cache' = [k \in DOMAIN search_cache \cup {inflight[1].cache_key} |->
                           IF k = inflight[1].cache_key THEN model_dump_json(inflight[1].body)
                           ELSE search_cache[k]]
    /\ expires_at' = [k \in DOMAIN expires_at \cup {inflight[1].cache_key} |->
                         IF k = inflight[1].cache_key
                         THEN utc_now + SEARCH_RESULTS_CACHE_TTL_MINUTES
                         ELSE expires_at[k]]
    /\ response' = [op |-> "search", code |-> 200, body |-> inflight[1].body]
    /\ searches' = searches + 1
    /\ inflight' = <<>>
    /\ UNCHANGED <<committed, db, steps, committed_at>>
    /\ RaceDone

\* DELETE or PATCH /api/admin/stores/S1 of another client, committed now.
RaceMutation ==
    /\ steps < MaxMutations
    /\ \E out \in {[op |-> "delete_store", res |-> delete_store(committed, "S1")],
                   [op |-> "update_store", res |-> update_store(committed, "S1", [name |-> "C"])]} :
          /\ out.res.code = 200
          /\ committed' = out.res.db
          /\ db' = out.res.db
          /\ response' = [op |-> out.op, code |-> 200]
    /\ committed_at' = utc_now
    /\ steps' = steps + 1
    /\ UNCHANGED <<searches, search_cache, expires_at, inflight>>
    /\ RaceDone

\* A minute passes.
Minute ==
    /\ utc_now < MaxMinutes
    /\ utc_now' = utc_now + 1
    /\ UNCHANGED <<committed, db, geocache, pc, header_line, upload, headers, row_number, raw_row,
                   results, created_count, updated_count, failed_count, service_cache, geolog,
                   response, steps>>
    /\ UNCHANGED searchvars
    /\ UNCHANGED <<call, users, refresh_tokens, access_tokens, logged_out, authorization>>
    /\ UNCHANGED racevars
    /\ UNCHANGED ratevars

InitRace ==
    /\ committed = Seed(CatalogBodies)
    /\ db = committed
    /\ geocache = NoCache
    /\ pc = "idle"
    /\ header_line = SearchHeader
    /\ upload = <<>>
    /\ headers = <<>>
    /\ row_number = 1
    /\ raw_row = NoRow
    /\ results = <<>>
    /\ created_count = 0
    /\ updated_count = 0
    /\ failed_count = 0
    /\ service_cache = NoCache
    /\ geolog = <<>>
    /\ response = NoResponse
    /\ steps = 0
    /\ search_cache = NoCache
    /\ request = RaceRequest
    /\ search_lat = NoneF
    /\ search_lon = NoneF
    /\ queried = FALSE
    /\ searches = 0
    /\ local_now = NoTime
    /\ call = NoCall
    /\ AuthIdle
    /\ RaceIdle
    /\ RateIdle

NextRace == SearchArrives \/ SearchCaches \/ RaceMutation \/ Minute

SpecRace == InitRace /\ [][NextRace]_vars

\* ------------------------------------------------------ the rate limiter
\* rate_limit (rate_limiter.py 11-45) as the workers run it: datetime.now()
\* is read, then the pipeline reaches Redis, and the clock goes on between
\* the two.  utc_now counts minutes; the clock hour is utc_now \div 60.
MinutesPerHour == 60
\* The minutes of an hour the model visits, and its last hour.
MaxMinuteOfHour == 1
MaxHour == 1

\* strftime("%Y%m%d%H%M") and strftime("%Y%m%d%H") of the clock.
ClockMinute(clock) == clock
ClockHour(clock) == clock \div MinutesPerHour

minute_key(ip_address, current_minute) == <<"rate_limit:minute", ip_address, current_minute>>
hour_key(ip_address, current_hour) == <<"rate_limit:hour", ip_address, current_hour>>

\* The keys Redis can still hold at the clock: in the minute the TTL of a
\* key runs out Redis may have dropped it already (KeyExpires) or not yet,
\* after that minute it has.
KeysHeld(keys, clock) ==
    [k \in {key \in DOMAIN keys : clock <= keys[key].expires} |-> keys[k]]

\* minute_count > settings.RATE_LIMIT_PER_MINUTE (lines 24 and 41).
Exceeds(count, limit) == count > limit

\* pipe.incr(key); pipe.expire(key, ttl); pipe.execute() (lines 19-22, 35-38):
\* the count returned and the keys afterwards.
incr_expire(keys, key, ttl, clock) ==
    LET count == IF key \in DOMAIN keys THEN keys[key].count + 1 ELSE 1
    IN [count |-> count,
        keys |-> [k \in DOMAIN keys \cup {key} |->
                     IF k = key THEN [count |-> count, expires |-> clock + ttl]
                     ELSE keys[k]]]

RateDone ==
    /\ UNCHANGED <<committed, db, geocache, pc, header_line, upload, headers, row_number, raw_row,
                   results, created_count, updated_count, failed_count, service_cache, geolog,
                   steps>>
    /\ UNCHANGED <<search_cache, request, search_lat, search_lon, queried, local_now>>
    /\ UNCHANGED <<call, users, refresh_tokens, access_tokens, logged_out, authorization>>
    /\ UNCHANGED racevars

\* A search request reaches rate_limit: lines 12-16.
LimiterArrives(slot, ip_address) ==
    /\ limiter[slot].pc = "idle"
    /\ \A earlier \in 1..(slot - 1) : limiter[earlier].pc # "idle"
    /\ arrived < MaxArrivals
    /\ arrived' = arrived + 1
    /\ limiter' = [limiter EXCEPT ![slot] = [pc |-> "minute", ip_address |-> ip_address,
                                             current_minute |-> ClockMinute(utc_now),
                                             current_hour |-> 0]]
    /\ UNCHANGED <<rate_keys, passed, response, searches, utc_now>>
    /\ RateDone

\* The 429 of lines 25-29 and 42-46: the handler is not entered.
TooManyRequests(slot) ==
    /\ response' = [op |-> "search", code |-> 429]
    /\ limiter' = [limiter EXCEPT ![slot] = NoLimiterCall]
    /\ UNCHANGED <<passed, searches>>

\* Lines 19-29: the minute pipeline and the test of its count.
CountMinute(slot) ==
    /\ limiter[slot].pc = "minute"
    /\ \E out \in {incr_expire(rate_keys,
                               minute_key(limiter[slot].ip_address, limiter[slot].current_minute),
                               1, utc_now)} :
          /\ rate_keys' = out.keys
          /\ IF Exceeds(out.count, RATE_LIMIT_PER_MINUTE)
             THEN TooManyRequests(slot)
             ELSE /\ limiter' = [limiter EXCEPT ![slot].pc = "hour_clock"]
                  /\ UNCHANGED <<passed, response, searches>>
    /\ UNCHANGED <<arrived, utc_now>>
    /\ RateDone

\* Lines 32-33: the clock is read again for the hour key.
ReadHour(slot) ==
    /\ limiter[slot].pc = "hour_clock"
    /\ limiter' = [limiter EXCEPT ![slot].pc = "hour",
                                  ![slot].current_hour = ClockHour(utc_now)]
    /\ UNCHANGED <<rate_keys, arrived, passed, response, searches, utc_now>>
    /\ RateDone

\* Lines 35-46: the hour pipeline and the test of its count; a request that
\* is not rejected goes on to search_stores.
CountHour(slot) ==
    /\ limiter[slot].pc = "hour"
    /\ \E out \in {incr_expire(rate_keys,
                               hour_key(limiter[slot].ip_address, limiter[slot].current_hour),
                               MinutesPerHour, utc_now)} :
          /\ rate_keys' = out.keys
          /\ IF Exceeds(out.count, RATE_LIMIT_PER_HOUR)
             THEN TooManyRequests(slot)
             ELSE /\ limiter' = [limiter EXCEPT ![slot].pc = "search"]
                  /\ passed' = [passed EXCEPT
                                   ![limiter[slot].ip_address].minute =
                                       @ + (IF limiter[slot].current_minute = 0 THEN 1 ELSE 0),
                                   ![limiter[slot].ip_address].hour =
                                       @ + (IF limiter[slot].current_hour = 0 THEN 1 ELSE 0)]
                  /\ UNCHANGED <<response, searches>>
    /\ UNCHANGED <<arrived, utc_now>>
    /\ RateDone

\* search_stores runs for a request that rate_limit let through.
LimitedSearch(slot) ==
    /\ limiter[slot].pc = "search"
    /\ limiter' = [limiter EXCEPT ![slot] = NoLimiterCall]
    /\ searches' = searches + 1
    /\ response' = [op |-> "search", code |-> 200]
    /\ UNCHANGED <<rate_keys, arrived, passed, utc_now>>
    /\ RateDone

\* Redis drops a rate_limit:* key whose TTL has run out.
KeyExpires ==
    /\ \E key \in DOMAIN rate_keys :
          /\ utc_now >= rate_keys[key].expires
          /\ rate_keys' = [k \in DOMAIN rate_keys \ {key} |-> rate_keys[k]]
    /\ UNCHANGED <<limiter, arrived, passed, response, searches, utc_now>>
    /\ RateDone

\* The clock goes on by a minute or to the start of the next hour.
ClockGoesOn ==
    /\ \E clock \in {utc_now + 1, (ClockHour(utc_now) + 1) * MinutesPerHour} :
          /\ clock % MinutesPerHour <= MaxMinuteOfHour
          /\ ClockHour(clock) <= MaxHour
          /\ utc_now' = clock
          /\ rate_keys' = KeysHeld(rate_keys, clock)
    /\ UNCHANGED <<limiter, arrived, passed, response, searches>>
    /\ RateDone

InitRate ==
    /\ committed = EmptyDB
    /\ db = EmptyDB
    /\ geocache = NoCache
    /\ pc = "idle"
    /\ header_line = <<>>
    /\ upload = <<>>
    /\ headers = <<>>
    /\ row_number = 1
    /\ raw_row = NoRow
    /\ results = <<>>
    /\ created_count = 0
    /\ updated_count = 0
    /\ failed_count = 0
    /\ service_cache = NoCache
    /\ geolog = <<>>
    /\ response = NoResponse
    /\ steps = 0
    /\ SearchIdle
    /\ call = NoCall
    /\ AuthIdle
    /\ RaceIdle
    /\ RateIdle

NextRate ==
    \/ \E slot \in 1..MaxInflight :
          \/ \E ip_address \in ClientHosts : LimiterArrives(slot, ip_address)
          \/ CountMinute(slot)
          \/ ReadHour(slot)
          \/ CountHour(slot)
          \/ LimitedSearch(slot)
    \/ KeyExpires
    \/ ClockGoesOn

SpecRate == InitRate /\ [][NextRate]_vars

\* ---------------------------------------------------------- properties
\* A step that reads one data row, and the row it read.
RowRead == pc = "import" /\ steps' = steps + 1
Reached == ~StripFails(raw_row')
Accepted == Reached /\ validate_store_row(StripRow(raw_row')).ok
Rejected == Reached /\ ~validate_store_row(StripRow(raw_row')).ok
Last(seq) == seq[Len(seq)]
RowStoreId == StripRow(raw_row')["store_id"]

\* The row yields no coordinates: no usable latitude/longitude pair, and
\* no address or an address that is not geocoded (not in the cache after
\* the lookup).
NoCoordinates ==
    LET row == StripRow(raw_row')
    IN /\ ~(Truthy(Get(row, "latitude")) /\ Truthy(Get(row, "longitude")))
       /\ \/ AddressParts(row) = <<>>
          \/ Join(AddressParts(row)) \notin DOMAIN geocache'

CoordinatesValid(store) ==
    /\ store.latitude.k = "num" /\ store.latitude.v >= 0 - 90 /\ store.latitude.v <= 90
    /\ store.longitude.k = "num" /\ store.longitude.v >= 0 - 180 /\ store.longitude.v <= 180

\* C1: a row that fails validation is reported as failed with a reason,
\* touches neither storage nor the geocoder, and leaves the outcomes of the
\* other rows and the import itself as they are.
C1_RejectedRowIsolated ==
    [][(RowRead /\ Rejected) =>
          /\ pc' = "import"
          /\ Len(results') = Len(results) + 1
          /\ SubSeq(results', 1, Len(results)) = results
          /\ Last(results').status = "failed"
          /\ Truthy(Last(results').error)
          /\ db' = db
          /\ geocache' = geocache
          /\ geolog' = geolog]_vars

\* C2: once the header has passed, no data row makes the import end with an
\* error: the loop goes on, or the import answers 200 with its report.
C2_NoRowAbortsImport ==
    [][pc = "import" => (pc' = "import" \/ response'.code = 200)]_vars

\* C3: a row that passes validation is either reported created or updated,
\* or it is reported failed with the error and none of its writes is in the
\* session's database (which the commit makes the stored one).
C3_FailedRowLeavesNoWrites ==
    [][(RowRead /\ Accepted) =>
          /\ pc' = "import"
          /\ \/ Last(results').status \in {"created", "updated"}
             \/ /\ Last(results').status = "failed"
                /\ Truthy(Last(results').error)
                /\ db' = db]_vars

\* C4: a valid row whose store_id is that of an existing record leaves the
\* number of records as it is, is counted as updated and not as created,
\* and the record's name is then the row's name.
C4_ExistingIdUpdates ==
    [][(RowRead /\ Accepted /\ RowStoreId \in DOMAIN db.stores) =>
          /\ pc' = "import"
          /\ DOMAIN db'.stores = DOMAIN db.stores
          /\ updated_count' = updated_count + 1
          /\ created_count' = created_count
          /\ db'.stores[RowStoreId].name = StripRow(raw_row')["name"]]_vars

\* C5: every persisted store has a latitude in [-90,90] and a longitude in
\* [-180,180].
C5_PersistedCoordinatesValid ==
    \A id \in DOMAIN committed.stores : CoordinatesValid(committed.stores[id])

\* C6: the report of an import has one entry per data row, in input order
\* with row numbers from 2, each created, updated or failed, and
\* total_rows = created + updated + failed = the number of data rows.
C6_ReportMatchesRows ==
    [][(pc = "import" /\ pc' = "idle" /\ response'.code = 200) =>
          LET report == response'.report
          IN /\ Len(report.results) = row_number - 1
             /\ \A i \in 1..Len(report.results) :
                   /\ report.results[i].row_number = i + 1
                   /\ report.results[i].status \in {"created", "updated", "failed"}
             /\ report.total_rows = row_number - 1
             /\ report.total_rows = report.created + report.updated + report.failed]_vars

\* C7: an import whose header lacks store_id or name (an empty input has no
\* header at all) fails as a whole with 400: no row outcome, no geocoding
\* lookup or delay, and the database is as it was.
C7_BadHeaderFailsWhole ==
    [][(/\ pc = "idle"
        /\ pc' = "import" \/ response'.op = "import"
        /\ "store_id" \notin SeqToSet(headers') \/ "name" \notin SeqToSet(headers')) =>
          /\ pc' = "idle"
          /\ response' = [op |-> "import", code |-> 400]
          /\ results' = <<>>
          /\ row_number' = 1
          /\ geolog' = <<>>
          /\ geocache' = geocache
          /\ db' = db
          /\ committed' = committed]_vars

\* An import of a header without name was refused while a store is stored.
C7_Witness ==
    /\ response = [op |-> "import", code |-> 400]
    /\ "store_id" \in SeqToSet(headers)
    /\ "name" \notin SeqToSet(headers)
    /\ raw_row = NoRow
    /\ "S1" \in DOMAIN committed.stores

C9_CreateAppliesDefaults ==
    [][(RowRead /\ Accepted /\ RowStoreId \notin DOMAIN db.stores /\ ~NoCoordinates) =>
          /\ pc' = "import"
          /\ Last(results').status = "created"
          /\ RowStoreId \in DOMAIN db'.stores
          /\ LET row == StripRow(raw_row')
                 new == db'.stores[RowStoreId]
             IN /\ ~Truthy(Get(row, "store_type")) => new.store_type = "regular"
                /\ ~Truthy(Get(row, "status")) => new.status = "active"
                /\ ~Truthy(Get(row, "address_country")) => new.address_country = "USA"
                /\ \A day \in DaySet :
                      ~Truthy(Get(row, HoursField(day))) => new.hours[day] = "closed"]_vars

\* C10: a valid row that yields no coordinates is, for a new store_id,
\* reported failed with the could-not-determine-coordinates error, counted
\* once, and creates no store; for an existing store_id it is reported
\* updated and the stored latitude and longitude are unchanged.
C10_NoCoordinates ==
    [][(RowRead /\ Accepted /\ NoCoordinates) =>
          /\ pc' = "import"
          /\ IF RowStoreId \notin DOMAIN db.stores
             THEN /\ results' = Append(results, ImportResult(row_number + 1, RowStoreId,
                                                             "failed", CoordError))
                  /\ failed_count' = failed_count + 1
                  /\ created_count' = created_count
                  /\ updated_count' = updated_count
                  /\ db'.stores = db.stores
             ELSE /\ Last(results').status = "updated"
                  /\ db'.stores[RowStoreId].latitude = db.stores[RowStoreId].latitude
                  /\ db'.stores[RowStoreId].longitude = db.stores[RowStoreId].longitude]_vars

\* The row names no latitude and no longitude and has an address, and the
\* address is geocoded (it is in the cache after the lookup).
GeocodedRow ==
    LET row == StripRow(raw_row')
    IN /\ ~Truthy(Get(row, "latitude"))
       /\ ~Truthy(Get(row, "longitude"))
       /\ AddressParts(row) # <<>>
       /\ Join(AddressParts(row)) \in DOMAIN geocache'

\* C11: a valid row with a new store_id, no latitude or longitude value and
\* an address the geocoder resolves is reported created (created count up
\* by one, failed count unchanged), and the stored coordinates are those
\* the geocoder gives for the joined non-empty address components.
C11_GeocodedRowCreates ==
    [][(RowRead /\ Accepted /\ RowStoreId \notin DOMAIN db.stores /\ GeocodedRow) =>
          /\ pc' = "import"
          /\ Last(results').status = "created"
          /\ created_count' = created_count + 1
          /\ failed_count' = failed_count
          /\ RowStoreId \in DOMAIN db'.stores
          /\ LET found == geocache'[Join(AddressParts(StripRow(raw_row')))]
             IN /\ db'.stores[RowStoreId].latitude = found.latitude
                /\ db'.stores[RowStoreId].longitude = found.longitude]_vars

\* A search has answered 200; its body is in response.
SearchAnswered == response.op = "search" /\ response.code = 200

\* C12: the stores of every search response, computed or served from the
\* cache, are in non-decreasing order of distance, and every distance is at
\* most the radius of the request (10 miles when the request gives none).
C12_SortedWithinRadius ==
    SearchAnswered =>
       LET data == response.body.data
       IN /\ \A i \in 1..(Len(data) - 1) : data[i].distance <= data[i + 1].distance
          /\ \A i \in 1..Len(data) : data[i].distance <= RadiusOf(request)

\* A computed response with two stores at different distances, a third
\* store of the bounding box being farther than the radius.
C12_Witness ==
    /\ SearchAnswered
    /\ queried
    /\ Len(response.body.data) = 2
    /\ response.body.data[1].distance < response.body.data[2].distance
    /\ \E id \in PotentialStores(committed, request,
                                 calculate_bounding_box(search_lat, search_lon,
                                                        RadiusOf(request))) :
          calculate_distance(search_lat, search_lon, committed.stores[id].latitude,
                             committed.stores[id].longitude) > RadiusOf(request)

\* A search request is answered in this step.
SearchStep == searches' = searches + 1

\* The step computes the response from storage and answers 200.
ComputedAnswer == SearchStep /\ queried' /\ response'.code = 200

\* C13: every store of a computed response was active in storage when the
\* query ran, has every service named in filters.services, and has a type
\* among filters.store_types when types are given.
C13_ResultsSatisfyFilters ==
    [][ComputedAnswer =>
          \A i \in 1..Len(response'.body.data) :
             LET id == response'.body.data[i].store_id
                 names == ServiceFilter(request)
                 types == TypeFilter(request)
             IN /\ id \in DOMAIN committed.stores
                /\ committed.stores[id].status = "active"
                /\ \A n \in 1..Len(names) : names[n] \in committed.stores[id].services
                /\ types # <<>> => committed.stores[id].store_type \in SeqToSet(types)]_vars

\* A computed response to a request with a service and two types, holding
\* two stores while storage holds an active store without the service and
\* an inactive one.
C13_Witness ==
    /\ SearchAnswered
    /\ queried
    /\ ServiceFilter(request) = <<"b">>
    /\ TypeFilter(request) = <<"flagship", "regular">>
    /\ Len(response.body.data) = 2
    /\ \E id \in DOMAIN committed.stores :
          committed.stores[id].status = "active" /\ "b" \notin committed.stores[id].services
    /\ \E id \in DOMAIN committed.stores : committed.stores[id].status = "inactive"

\* The cache entry of the request of this behaviour.
CacheKey == model_dump_json(request)

\* C14: a search answered 200 leaves its response in the result cache, and
\* an identical request made while the entry is there is answered with
\* exactly that response, with no call of the geocoder and no query of
\* storage; until it expires the entry is not altered.
C14_CachedSearchRepeats ==
    [][/\ ComputedAnswer =>
             /\ CacheKey \in DOMAIN search_cache'
             /\ model_validate_json(search_cache'[CacheKey]) = response'.body
       /\ (SearchStep /\ CacheKey \in DOMAIN search_cache) =>
             /\ response' = [op |-> "search", code |-> 200,
                             body |-> model_validate_json(search_cache[CacheKey])]
             /\ geolog' = <<>>
             /\ ~queried'
             /\ UNCHANGED <<search_cache, geocache, committed>>
       /\ (CacheKey \in DOMAIN search_cache /\ CacheKey \in DOMAIN search_cache') =>
             search_cache'[CacheKey] = search_cache[CacheKey]]_vars

\* The second of two searches by address is answered from the cache with
\* the store the first one found, the geocoder not being called.
C14_Witness ==
    /\ searches = 2
    /\ SearchAnswered
    /\ ~queried
    /\ geolog = <<>>
    /\ request.location.latitude = NoneF
    /\ request.location.address = "Main"
    /\ Len(response.body.data) = 1

\* A step of a store mutation: an admin create, update or soft delete, or
\* a step of a CSV import.
MutationStep == steps' # steps \/ pc' # pc \/ committed' # committed \/ db' # db

\* C15: no store mutation (admin create, update, soft delete, CSV import)
\* changes or removes an entry of the search-result cache, and a search
\* that finds its entry returns it whatever storage holds by then.
C15_MutationsKeepSearchCache ==
    [][/\ MutationStep => search_cache' = search_cache
       /\ (SearchStep /\ CacheKey \in DOMAIN search_cache) =>
             /\ response'.code = 200
             /\ response'.body = model_validate_json(search_cache[CacheKey])]_vars

\* A search answered from the cache after a mutation: the response holds
\* a store that is no longer active in storage, or differs from storage.
C15_Witness ==
    /\ searches = 2
    /\ steps = 1
    /\ SearchAnswered
    /\ ~queried
    /\ \E i \in 1..Len(response.body.data) :
          LET item == response.body.data[i]
          IN committed.stores[item.store_id].status = "inactive"

\* The search of this step computes its answer (no entry under its key).
ComputedSearch == SearchStep /\ CacheKey \notin DOMAIN search_cache

\* The string a computed search geocodes, None when it geocodes nothing.
SearchString ==
    LET location == request.location
    IN IF location.latitude # NoneF /\ location.longitude # NoneF THEN None
       ELSE IF Truthy(location.address) THEN location.address
       ELSE IF Truthy(location.postal_code) THEN location.postal_code
       ELSE None

\* The import row of this step is valid and needs a lookup of its address.
RowLookup ==
    /\ RowRead
    /\ Accepted
    /\ ~(Truthy(Get(StripRow(raw_row'), "latitude")) /\ Truthy(Get(StripRow(raw_row'), "longitude")))
    /\ AddressParts(StripRow(raw_row')) # <<>>

RowAddress == Join(AddressParts(StripRow(raw_row')))

\* C16: once a string is geocoded it is in the geocode cache; while it is
\* there its coordinates do not change, and a lookup of the same string,
\* by a search (address or postal code) or by an import row, returns the
\* cached coordinates without calling the provider.
C16_GeocodeCacheReused ==
    [][/\ \A s \in DOMAIN geocache \cap DOMAIN geocache' : geocache'[s] = geocache[s]
       /\ (ComputedSearch /\ SearchString # None /\ search_lat' # NoneF) =>
             /\ SearchString \in DOMAIN geocache'
             /\ geocache'[SearchString] = Coords(search_lat', search_lon')
       /\ (ComputedSearch /\ SearchString \in DOMAIN geocache) =>
             /\ geolog' = <<>>
             /\ search_lat' = geocache[SearchString].latitude
             /\ search_lon' = geocache[SearchString].longitude
       /\ (RowLookup /\ RowAddress \in DOMAIN geocache) =>
             /\ geolog' = geolog
             /\ (pc' = "import" /\ Last(results').status \in {"created", "updated"}) =>
                   /\ db'.stores[RowStoreId].latitude = geocache[RowAddress].latitude
                   /\ db'.stores[RowStoreId].longitude = geocache[RowAddress].longitude]_vars

\* An import row has geocoded "Main"; the only search so far, by the
\* address "Main", has its centre from the cache and made no provider call.
C16_Witness ==
    /\ searches = 1
    /\ steps = 1
    /\ response.op = "search"
    /\ request.location.latitude = NoneF
    /\ request.location.address = "Main"
    /\ geolog = <<>>
    /\ search_lat = Num(42)
    /\ "Main" \in DOMAIN geocache
    /\ \E id \in DOMAIN committed.stores :
          committed.stores[id].address_street = "Main" /\ committed.stores[id].latitude = Num(42)

\* cache with the coordinates of one more string.
WithEntry(cache, string, coords) ==
    [a \in DOMAIN cache \cup {string} |-> IF a = string THEN coords ELSE cache[a]]

\* C17: a lookup of a string that is not in the geocode cache calls the
\* provider; when the provider gives no coordinates the lookup is answered
\* not-found and the cache is left as it was, so the next lookup calls the
\* provider again; when it gives coordinates they are returned and cached.
C17_FailedLookupNotCached ==
    [][/\ (ComputedSearch /\ SearchString # None /\ SearchString \notin DOMAIN geocache) =>
             /\ geolog' # <<>>
             /\ geolog'[1] = "provider"
             /\ IF search_lat' = NoneF
                THEN /\ geocache' = geocache
                     /\ response'.code = 400
                     /\ ~queried'
                ELSE geocache' = WithEntry(geocache, SearchString,
                                           Coords(search_lat', search_lon'))
       /\ (RowLookup /\ RowAddress \notin DOMAIN geocache) =>
             /\ Len(geolog') >= Len(geolog) + 2
             /\ SubSeq(geolog', 1, Len(geolog) + 2) = geolog \o <<"sleep", "provider">>
             /\ IF RowAddress \in DOMAIN geocache'
                THEN /\ geocache'[RowAddress].found
                     /\ geocache' = WithEntry(geocache, RowAddress, geocache'[RowAddress])
                ELSE /\ geocache' = geocache
                     /\ NoCoordinates]_vars

\* The second search by the same address fails like the first: the
\* provider is called again and the geocode cache is still empty.
C17_Witness ==
    /\ searches = 2
    /\ steps = 0
    /\ response.op = "search"
    /\ response.code = 400
    /\ request.location.address = "Main"
    /\ geolog = <<"provider">>
    /\ geocache = NoCache
    /\ search_cache = NoCache

\* The lookup of this step called the provider and the call ended in a
\* timeout or a service error.
ProviderErrors == {"GeocoderTimedOut", "GeocoderServiceError"}
SearchProviderError == ComputedSearch /\ geolog' # <<>> /\ Last(geolog') \in ProviderErrors
RowProviderError == RowLookup /\ geolog' # geolog /\ Last(geolog') \in ProviderErrors

\* C18 as stated: a provider timeout or service error in a lookup makes a
\* search fail with a client error and makes the import row fail, with no
\* server error and no aborted import.
C18_ProviderErrorFailsRow ==
    [][/\ SearchProviderError =>
             /\ response'.op = "search"
             /\ response'.code = 400
       /\ RowProviderError =>
             /\ pc' = "import"
             /\ Last(results').status = "failed"]_vars

\* C18: a provider timeout or service error in a lookup is a not-found
\* result and nothing is cached: a search fails with the 400 of an address
\* or postal code that could not be geocoded; an import row for a new
\* store_id is reported failed with the could-not-determine-coordinates
\* error and the import goes on; an import row for an existing store_id is
\* not failed by it and, when reported updated, keeps the stored
\* coordinates.
C18_ProviderErrorIsNotFound ==
    [][/\ SearchProviderError =>
             /\ response' \in {[op |-> "search", code |-> 400,
                                 detail |-> "Could not geocode address: " \o SearchString],
                                [op |-> "search", code |-> 400,
                                 detail |-> "Could not geocode postal code: " \o SearchString]}
             /\ geocache' = geocache
             /\ search_cache' = search_cache
       /\ RowProviderError =>
             /\ geocache' = geocache
             /\ IF RowStoreId \notin DOMAIN db.stores
                THEN /\ pc' = "import"
                     /\ results' = Append(results, ImportResult(row_number + 1, RowStoreId,
                                                                "failed", CoordError))
                     /\ db'.stores = db.stores
                ELSE pc' = "import" =>
                        /\ Last(results').error # CoordError
                        /\ Last(results').status = "updated" =>
                              /\ db'.stores[RowStoreId].latitude = db.stores[RowStoreId].latitude
                              /\ db'.stores[RowStoreId].longitude =
                                    db.stores[RowStoreId].longitude]_vars

\* The lookup of a row for an existing store timed out and the row is
\* reported updated.
C18_Witness ==
    /\ pc = "import"
    /\ results # <<>>
    /\ Last(results).status = "updated"
    /\ geolog # <<>>
    /\ Last(geolog) = "GeocoderTimedOut"

\* The answer to a search whose address or postal code is not geocoded.
GeocodeFailure ==
    [op |-> "search", code |-> 400,
     detail |-> IF Truthy(request.location.address)
                THEN "Could not geocode address: " \o request.location.address
                ELSE "Could not geocode postal code: " \o request.location.postal_code]

\* C19: a search whose address or postal code cannot be geocoded is
\* answered 400 with a detail that names the address or postal code, and
\* changes nothing: no entry is written to the result cache, so an
\* identical retry finds no entry and calls the provider again.
C19_GeocodeFailureIs400 ==
    [][/\ (ComputedSearch /\ SearchString # None /\ SearchString \notin DOMAIN geocache') =>
             /\ response' = GeocodeFailure
             /\ search_cache' = search_cache
             /\ CacheKey \notin DOMAIN search_cache'
             /\ geocache' = geocache
             /\ ~queried'
             /\ UNCHANGED <<committed, db>>
       /\ (ComputedSearch /\ SearchString # None /\ SearchString \notin DOMAIN geocache) =>
             /\ geolog' # <<>>
             /\ geolog'[1] = "provider"]_vars

\* The retry of a search by postal code fails again after a new call of
\* the provider, both caches being empty.
C19_Witness ==
    /\ searches = 2
    /\ response = [op |-> "search", code |-> 400,
                   detail |-> "Could not geocode postal code: 02101"]
    /\ geolog # <<>>
    /\ geolog[1] = "provider"
    /\ search_cache = NoCache
    /\ geocache = NoCache

\* The centre of the search of this step is geocoded from the string: the
\* string is in the geocode cache afterwards and gives the centre, or the
\* search is answered with the given 400 detail.
CentreFrom(string, detail) ==
    IF string \in DOMAIN geocache'
    THEN /\ search_lat' = geocache'[string].latitude
         /\ search_lon' = geocache'[string].longitude
         /\ queried'
    ELSE /\ response' = [op |-> "search", code |-> 400, detail |-> detail \o string]
         /\ ~queried'

\* C20: a computed search takes its centre from the request's latitude and
\* longitude when both are supplied, 0 included, and then geocodes nothing
\* even if an address or postal code is present; otherwise from the
\* address when one is given; otherwise from the postal code when one is
\* given; otherwise it is answered 400 and nothing is cached.
C20_CentrePriority ==
    [][ComputedSearch =>
          LET location == request.location
          IN IF location.latitude # NoneF /\ location.longitude # NoneF
             THEN /\ search_lat' = location.latitude
                  /\ search_lon' = location.longitude
                  /\ queried'
                  /\ geolog' = <<>>
                  /\ geocache' = geocache
             ELSE IF Truthy(location.address)
                  THEN CentreFrom(location.address, "Could not geocode address: ")
             ELSE IF Truthy(location.postal_code)
                  THEN CentreFrom(location.postal_code, "Could not geocode postal code: ")
             ELSE /\ response' = [op |-> "search", code |-> 400, detail |-> NoLocationDetail]
                  /\ ~queried'
                  /\ geolog' = <<>>
                  /\ geocache' = geocache
                  /\ search_cache' = search_cache]_vars

\* A search at latitude 0 is computed around (0, 20) with no geocoding.
C20_Witness ==
    /\ SearchAnswered
    /\ queried
    /\ request.location.latitude = Num(0)
    /\ search_lat = Num(0)
    /\ search_lon = Num(20)
    /\ geolog = <<>>

\* is_store_open has returned for the store and the moment of the call.
OpenEvaluated == call.fn = "is_store_open" /\ call.returned /\ ~call.raised

\* The window of an hours string: none for closed or for a string that is
\* not two times.
Window(hours_str) ==
    LET parts == Split(hours_str, "-")
    IN IF hours_str = "closed" \/ Len(parts) # 2 THEN [ok |-> FALSE, open |-> 0, close |-> 0]
       ELSE [ok |-> strptime(parts[1]) # StrptimeError /\ strptime(parts[2]) # StrptimeError,
             open |-> strptime(parts[1]), close |-> strptime(parts[2])]

DayBefore(day) == IF day = "tue" THEN "mon" ELSE "sun"

\* The moment lies in a window of the store: the window of the day's hours
\* when open < close; from the opening time on when the day's hours span
\* midnight; before the closing time when the hours of the day before span
\* midnight.
InWindow(store, now) ==
    LET today == Window(store.hours[now.day])
        before == Window(store.hours[DayBefore(now.day)])
    IN \/ /\ today.ok
          /\ today.open < today.close
          /\ today.open <= now.minute /\ now.minute < today.close
       \/ /\ today.ok
          /\ today.open > today.close
          /\ now.minute >= today.open
       \/ /\ before.ok
          /\ before.open > before.close
          /\ now.minute < before.close

\* C21: is_store_open returns open exactly when the store is active and
\* the moment lies in a window of its hours, the window of hours
\* 22:00-06:00 for day D running from 22:00 of day D to 06:00 of day D+1.
C21_OpenExactlyInWindow ==
    OpenEvaluated => (call.value <=> (call.store.status = "active" /\ InWindow(call.store, call.now)))

\* C22: for every hours value that imports and admin writes leave in a
\* committed store, is_store_open raises no exception at any moment.
C22_StoredHoursNeverRaise ==
    \A id \in DOMAIN committed.stores, now \in Clock :
       ~IsStoreOpenRaises(committed.stores[id], now)

\* C23: when a search queries storage, every store whose exact distance
\* from the centre is at most the radius lies inside the bounding box
\* computed for that centre and radius.
C23_BoxEnclosesCircle ==
    [][(ComputedSearch /\ queried') =>
          LET radius_miles == RadiusOf(request)
              bbox == calculate_bounding_box(search_lat', search_lon', radius_miles)
          IN \A id \in DOMAIN committed.stores :
                LET store == committed.stores[id]
                IN (/\ store.latitude.k = "num"
                    /\ store.longitude.k = "num"
                    /\ calculate_distance(search_lat', search_lon', store.latitude,
                                          store.longitude) <= radius_miles)
                   => InBox(store, bbox)]_vars

\* calculate_bounding_box has returned the box of the call.
BoxComputed == call.fn = "calculate_bounding_box" /\ call.returned

TimeOfDay(t) ==
    /\ Len(t) \in {4, 5}
    /\ Char(t, Len(t) - 2) = ":"
    /\ IsDigitStr(SubSeq(t, 1, Len(t) - 3))
    /\ IsDigitStr(SubSeq(t, Len(t) - 1, Len(t)))
    /\ LET h == NatOf(SubSeq(t, 1, Len(t) - 3))
           m == NatOf(SubSeq(t, Len(t) - 1, Len(t)))
       IN h <= 24 /\ m <= 59 /\ (h = 24 => m = 0)

\* C25: validate_hours accepts a non-empty string exactly when it is the
\* word closed in any letter case or two times H:MM or HH:MM (hour 0..24,
\* minute 0..59, hour 24 only with minute 0) separated by a single '-'.
C25_HoursAcceptedExactly ==
    (call.fn = "validate_hours" /\ call.returned /\ call.hours_str # "") =>
       LET parts == Split(call.hours_str, "-")
       IN call.value <=> \/ Lower(call.hours_str) = "closed"
                         \/ Len(parts) = 2 /\ TimeOfDay(parts[1]) /\ TimeOfDay(parts[2])

\* The segments of a services cell that are not blank, in the order of the cell.
KeptSegments(services_str) ==
    LET segs == Split(services_str, "|")
    IN {i \in 1..Len(segs) : Strip(segs[i]) # ""}

\* C26: parse_services returns the segments between '|' characters, each
\* trimmed, without the segments that are empty after trimming and in the order
\* of the input; the empty string gives the empty list.
C26_ServicesSplitTrimmedInOrder ==
    (call.fn = "parse_services" /\ call.returned) =>
       LET segs == Split(call.services_str, "|")
           kept == KeptSegments(call.services_str)
           position(i) == Cardinality({k \in kept : k <= i})
       IN /\ ~call.raised
          /\ call.services_str = "" => call.value = <<>>
          /\ Len(call.value) = Cardinality(kept)
          /\ \A i \in kept : call.value[position(i)] = Strip(segs[i])

\* A cell with a blank segment between two names that need trimming was parsed.
C26_Witness ==
    /\ call.fn = "parse_services"
    /\ call.returned
    /\ call.services_str = " a | b "
    /\ call.value = <<"a", "b">>

\* A step of DELETE /api/admin/stores/{store_id}.
DeleteStep == pc = "idle" /\ steps' # steps /\ response'.op = "delete_store"

\* C27: no import and no admin request removes a stored store, so every store
\* id that was stored stays stored; a delete answers 404 and changes nothing,
\* or sets the status of one store to inactive and changes no other field, no
\* other store and no service.
C27_StoresNeverRemoved ==
    [][/\ DOMAIN committed.stores \subseteq DOMAIN committed'.stores
       /\ DeleteStep =>
             \/ response'.code = 404 /\ committed' = committed
             \/ /\ response'.code = 200
                /\ \E store_id \in DOMAIN committed.stores :
                      committed' = [committed EXCEPT !.stores[store_id].status = "inactive"]]_vars

\* An active store was deleted and is still stored, as inactive.
C27_Witness ==
    /\ response = [op |-> "delete_store", code |-> 200]
    /\ "S1" \in DOMAIN committed.stores
    /\ committed.stores["S1"].status = "inactive"
    /\ committed.stores["S1"].name # None

\* The service names the row read in this step references.
RowServices == SeqToSet(parse_services(GetD(StripRow(raw_row'), "services", "")))

\* C28: no two service records share a name and none is ever deleted; a valid
\* row for a stored store leaves exactly one record for each name it
\* references: the record that was there before, or a new one.
C28_ServiceTagsUniqueByName ==
    [][/\ \A s1, s2 \in db'.services : s1.name = s2.name => s1 = s2
       /\ committed.services \subseteq committed'.services
       /\ (RowRead /\ Accepted /\ RowStoreId \in DOMAIN db.stores) =>
             \A name \in RowServices :
                /\ \E svc \in db'.services : svc.name = name
                /\ \A svc \in db.services : svc.name = name => svc \in db'.services]_vars

\* The row read in this step has an address that is in the geocode cache.
RowAddressCached ==
    LET row == StripRow(raw_row')
    IN /\ AddressParts(row) # <<>>
       /\ Join(AddressParts(row)) \in DOMAIN geocache

\* C29: in an import every provider call comes directly after a throttle
\* sleep, and a row whose address is in the geocode cache causes no sleep and
\* no provider call (an entry of the cache does not expire within a row).
C29_ProviderCallsThrottled ==
    [][/\ pc' = "import" =>
             \A i \in 1..Len(geolog') :
                geolog'[i] = "provider" => i > 1 /\ geolog'[i - 1] = "sleep"
       /\ (RowRead /\ Reached /\ RowAddressCached) =>
             geolog' = geolog /\ geocache' = geocache]_vars

\* Two rows without coordinates named the same address: the first was geocoded
\* after one sleep, the second found the address in the cache.
C29_Witness ==
    /\ pc = "import"
    /\ Len(results) = 2
    /\ results[1].status = "created"
    /\ results[2].status = "updated"
    /\ "latitude" \notin DOMAIN raw_row
    /\ AddressParts(StripRow(raw_row)) # <<>>
    /\ DOMAIN geocache = {Join(AddressParts(StripRow(raw_row)))}
    /\ geolog = <<"sleep", "provider">>

\* A step of POST /api/auth/refresh, and the rows of the token it presented.
RefreshStep == response'.op = "refresh" /\ utc_now' = utc_now
PresentedRows ==
    {t \in refresh_tokens : verify_token_hash(response'.refresh_token, t.token_hash)}
RefreshSucceeds ==
    /\ response'.code = 200
    /\ get_current_user(response'.access_token, users', utc_now').code = 200

\* C30, as stated: a refresh presenting a token of a logout that succeeded is
\* answered 401; a refresh presenting an issued token before its logout and
\* before it expires succeeds with an access token that is accepted.
C30_RefreshUntilLogout ==
    [][RefreshStep =>
          /\ response'.refresh_token \in logged_out => response'.code = 401
          /\ (/\ response'.refresh_token \notin logged_out
              /\ PresentedRows # {}
              /\ \A t \in PresentedRows : utc_now <= t.expires_at)
                => RefreshSucceeds]_vars

\* C30, amended: the refresh before the logout succeeds while the user of the
\* token is active.
C30_RefreshUntilLogoutWhileActive ==
    [][RefreshStep =>
          /\ response'.refresh_token \in logged_out => response'.code = 401
          /\ (/\ response'.refresh_token \notin logged_out
              /\ PresentedRows # {}
              /\ \A t \in PresentedRows :
                    utc_now <= t.expires_at /\ users[t.user_id].status = "active")
                => RefreshSucceeds]_vars

\* A refresh presented the token of a logout that succeeded, before the token
\* expired, and was answered 401.
C30_Witness ==
    /\ response.op = "refresh"
    /\ response.code = 401
    /\ response.refresh_token \in logged_out
    /\ \E t \in refresh_tokens :
          /\ verify_token_hash(response.refresh_token, t.token_hash)
          /\ utc_now <= t.expires_at
          /\ users[t.user_id].status = "active"

\* The caller of the request: authenticated, and the role the users table gives.
Authenticated == get_current_user(authorization, users, utc_now).code = 200
CallerRole == users[authorization.user_id].role
StoreOps == {"create_store", "update_store", "delete_store", "import"}

\* C31: a store create, update, delete or import of an authenticated viewer is
\* answered 403 and leaves storage as it was, and no request of a viewer
\* changes storage; the same requests of an authenticated admin or marketer
\* pass the check of the role.
C31_ViewerCannotChangeStores ==
    [][/\ CallerRole = "viewer" => committed' = committed /\ db' = db
       /\ (pc = "idle" /\ Authenticated) =>
             IF CallerRole = "viewer"
             THEN response'.op \in StoreOps /\ response'.code = 403 /\ pc' = "idle"
             ELSE pc' = "import" \/ (response'.op \in StoreOps /\ response'.code \notin {401, 403})
      ]_vars

\* A viewer's request to delete a stored store was answered 403.
C31_Witness ==
    /\ Authenticated
    /\ CallerRole = "viewer"
    /\ response = [op |-> "delete_store", code |-> 403]
    /\ "S1" \in DOMAIN committed.stores
    /\ committed.stores["S1"].status = "active"

\* The active stores within the radius of the centre of this step's search
\* that have every requested service and, when types are given, a listed type.
Matching ==
    {id \in DOMAIN committed.stores :
        LET store == committed.stores[id]
            names == ServiceFilter(request)
            types == TypeFilter(request)
        IN /\ store.status = "active"
           /\ store.latitude.k = "num" /\ store.longitude.k = "num"
           /\ calculate_distance(search_lat', search_lon', store.latitude, store.longitude)
                 <= RadiusOf(request)
           /\ \A n \in 1..Len(names) : names[n] \in store.services
           /\ types # <<>> => store.store_type \in SeqToSet(types)}

\* C32: a search computed from storage, for any list of service names and
\* without open_now, answers 200 with exactly the active stores within the
\* radius that have all the requested services and a listed type.
C32_ServiceFilterConjunctive ==
    [][(ComputedSearch /\ search_lat' # NoneF /\ search_lon' # NoneF /\ ~OpenNow(request)) =>
          /\ response'.code = 200
          /\ {response'.body.data[i].store_id : i \in 1..Len(response'.body.data)} = Matching]_vars

\* The response holds a store that storage now holds differently.
StaleBody(body) ==
    \E i \in 1..Len(body.data) : body.data[i].store # committed'.stores[body.data[i].store_id]

\* C33: a search response that does not reflect a committed mutation is not
\* returned later than one TTL after the commit, and a search that finds no
\* live entry is computed from storage as it is then.
C33_StalenessBoundedByTTL ==
    [][/\ (searches' = searches + 1 /\ response'.code = 200 /\ StaleBody(response'.body)) =>
             utc_now <= committed_at + SEARCH_RESULTS_CACHE_TTL_MINUTES
       /\ (inflight = <<>> /\ inflight' # <<>>) =>
             ~CacheLive(inflight'[1].cache_key) /\ ~StaleBody(inflight'[1].body)]_vars

\* The store is open by its hours at the reading of the clock.
OpenAt(store_id, now) ==
    /\ committed.stores[store_id].status = "active"
    /\ InWindow(committed.stores[store_id], now)

\* C34: a search computed from storage answers 200 with total_results the
\* number of stores returned, in non-decreasing distance order; with
\* open_now it returns exactly the stores that pass the radius, service and
\* type filters and are open at the reading of the clock, each with
\* is_open_now true; without open_now it returns every store that passes
\* the filters, open or closed.
C34_OpenNowFilter ==
    [][(ComputedSearch /\ search_lat' # NoneF /\ search_lon' # NoneF) =>
          /\ response'.code = 200
          /\ LET data == response'.body.data
                 ids == {data[i].store_id : i \in 1..Len(data)}
             IN /\ response'.body.metadata.total_results = Len(data)
                /\ \A i \in 1..(Len(data) - 1) : data[i].distance <= data[i + 1].distance
                /\ IF OpenNow(request)
                   THEN /\ ids = {id \in Matching : OpenAt(id, local_now')}
                        /\ \A i \in 1..Len(data) : data[i].is_open_now
                   ELSE ids = Matching]_vars

\* POST /api/admin/stores for an identifier that storage holds answers 400
\* and leaves storage as it is.
CreateOfExistingRejected ==
    \A store_data \in StoreCreateBodies, provider \in ProviderOutcomes :
       store_data.store_id \in DOMAIN committed.stores =>
          LET out == create_store(committed, geocache, store_data, provider)
          IN out.code = 400 /\ out.db = committed

\* C35: the stores are keyed by store_id; an admin create for an existing
\* identifier is rejected and changes nothing; in an import a valid row
\* whose store_id is new and that yields coordinates is reported created
\* and adds the one record, and a valid row whose store_id exists, from
\* storage or from an earlier row, is reported updated and applied to that
\* record.
C35_OneRecordPerStoreId ==
    [][/\ CreateOfExistingRejected
       /\ (RowRead /\ Accepted /\ (RowStoreId \in DOMAIN db.stores \/ ~NoCoordinates)) =>
             /\ pc' = "import"
             /\ IF RowStoreId \in DOMAIN db.stores
                THEN /\ Last(results').status = "updated"
                     /\ DOMAIN db'.stores = DOMAIN db.stores
                     /\ db'.stores[RowStoreId].name = StripRow(raw_row')["name"]
                ELSE /\ Last(results').status = "created"
                     /\ DOMAIN db'.stores = DOMAIN db.stores \cup {RowStoreId}]_vars

\* A request is answered 429 by rate_limit.
Limited == response' = [op |-> "search", code |-> 429] /\ limiter' # limiter

\* C36: for each client IP at most RATE_LIMIT_PER_MINUTE of the requests
\* that read one clock minute and at most RATE_LIMIT_PER_HOUR of those that
\* read one clock hour pass rate_limit, however the requests interleave; a
\* request over a limit is answered 429 and search_stores does not run for
\* it.
C36_RateLimitsHold ==
    /\ [](\A ip_address \in ClientHosts :
             /\ passed[ip_address].minute <= RATE_LIMIT_PER_MINUTE
             /\ passed[ip_address].hour <= RATE_LIMIT_PER_HOUR)
    /\ [][Limited => /\ searches' = searches
                     /\ search_cache' = search_cache
                     /\ geocache' = geocache
                     /\ queried' = queried]_vars

\* A PUT or DELETE /api/admin/users/{user_id} is answered.
UserManagementStep ==
    /\ response'.op \in {"update_user", "delete_user"}
    /\ utc_now' = utc_now

\* C37: no update_user or delete_user leaves the account of the caller who
\* issued it inactive when it was active before.
C37_NoSelfDeactivation ==
    [][(UserManagementStep /\ users[authorization'.user_id].status = "active") =>
          users'[authorization'.user_id].status = "active"]_vars

\* The window an accepted hours string states, in minutes after midnight,
\* read the way validate_hours reads it: the times stripped, hour and
\* minute as integers.
StatedMinutes(t) ==
    LET hm == Split(Strip(t), ":")
    IN PyInt(hm[1]) * MinutesPerHour + PyInt(hm[2])

StatedWindow(hours_str) ==
    LET parts == Split(hours_str, "-")
    IN [open |-> StatedMinutes(parts[1]), close |-> StatedMinutes(parts[2])]

\* A minute of the day of the string strictly inside its window: between
\* the two times, or after the opening time when the window spans midnight.
InsideStated(window, minute) ==
    IF window.open <= window.close
    THEN window.open < minute /\ minute < window.close
    ELSE window.open < minute

\* C38: an active store whose hours for the current weekday are a
\* non-closed string that validate_hours accepts is reported open by
\* is_store_open at every minute of that day strictly inside the window
\* the string states.
C38_AcceptedHoursReportedOpen ==
    (/\ call.fn = "validate_hours"
     /\ call.returned
     /\ call.value
     /\ Truthy(call.hours_str)
     /\ Lower(call.hours_str) # "closed") =>
       \A minute \in 0..(24 * MinutesPerHour - 1) :
          InsideStated(StatedWindow(call.hours_str), minute) =>
             is_store_open(HoursStore("active", Strip(call.hours_str), "closed"),
                           [day |-> "mon", minute |-> minute])

\* The users whose status is inactive before the request.
Inactive == {u \in DOMAIN users : users[u].status = "inactive"}

\* C39: while a user's status is inactive, a request presenting an access
\* token of theirs is answered 401 and changes nothing, a refresh with a
\* refresh token of theirs is answered 401 and issues nothing, and a login
\* with their email and password is answered 403 and issues nothing.
C39_InactiveUserHasNoAccess ==
    [][/\ (/\ response'.op \in {"logout", "update_user", "delete_user"}
           /\ utc_now' = utc_now
           /\ authorization'.user_id \in Inactive) =>
             /\ response'.code = 401
             /\ users' = users
             /\ refresh_tokens' = refresh_tokens
       /\ (RefreshStep /\ \E t \in PresentedRows : t.user_id \in Inactive) =>
             /\ response'.code = 401
             /\ access_tokens' = access_tokens
       /\ (/\ response'.op = "login"
           /\ utc_now' = utc_now
           /\ \E u \in Inactive : users[u].email = response'.email) =>
             /\ response'.code \in {401, 403}
             /\ access_tokens' = access_tokens
             /\ refresh_tokens' = refresh_tokens]_vars

\* An inactive user presented an access token that has not expired and was
\* refused.
C39_Witness ==
    /\ response.op = "logout"
    /\ response.code = 401
    /\ users[authorization.user_id].status = "inactive"
    /\ decode_access_token(authorization, utc_now).code = 200

====
